---- MODULE Spec2Model ----
(***************************************************************************)
(* A model of the voice generator: the VoiceManager (src/src/tts/          *)
(* voice_manager.py), the script parsers (src/src/readers/                 *)
(* script_parser.py), the web app's dialogue parser (src/app.py) and the   *)
(* audio assembly (src/src/audio/processor.py and track_builder.py) and    *)
(* the pipelines that synthesize and assemble a script (src/src/tts/       *)
(* gemini_tts.py, src/app.py, src/src/agent.py, src/gemini_dialogue.py).   *)
(*                                                                         *)
(* Strings of the program are sequences of Unicode code points, so that    *)
(* sorting, stripping and pattern matching are computed character by       *)
(* character as the Python code computes them. An audio buffer is a        *)
(* sequence of runs of frames, so that len(), which rounds frames to       *)
(* milliseconds, and silent(), which truncates milliseconds to frames, are *)
(* computed as pydub computes them.                                        *)
(***************************************************************************)
EXTENDS Integers, Sequences, FiniteSets, TLC

VARIABLES
    \* ---- VoiceManager objects (one per manager id)
    speaker_voices,     \* [Managers -> partial map speaker -> VoiceConfig]
    voice_index,        \* [Managers -> Nat], the field _voice_index
    default_language,   \* [Managers -> language code]
    vmHist,             \* history: per manager, the calls made so far
    autoLog,            \* history: per manager, the automatic assignments in order
    \* ---- the readers of script_parser.py
    fs,                 \* the files of the working directory: path -> text
    arg,                \* the `content` argument: [kind: "str" | "Path", value]
    fn,                 \* the function running
    pc,                 \* its position: "open", "loop", "done", "raised"
    content,            \* the local variable `content`
    pos,                \* pieces of content.split("\n") already consumed by the loop
    lines,              \* the local list `lines`
    speakers,           \* the local set `speakers`
    matchLog,           \* history: per piece, the pattern that matched and the tries
    sections,           \* parse_narration_script: the local list `sections`
    current_section,    \* the local `current_section`
    current_text,       \* the local list `current_text`
    \* ---- parse_dialogue of app.py (it shares fn, pc, content, pos with the readers)
    script,             \* the script as its author wrote it, line by line
    segments,           \* the local list `segments`
    \* ---- AudioProcessor of audio/processor.py (static methods on their arguments)
    audio_segments,     \* the argument `segments`: a list of AudioSegment
    silence_ms,         \* the argument `silence_ms`
    concatenated,       \* the outcome of concatenate(segments), once called
    combined,           \* the outcome of insert_silence_between(segments, silence_ms)
    \* ---- a TrackBuilder of audio/track_builder.py
    clips,              \* the field `clips`: a list of AudioClip
    tbLog,              \* history: the calls made on the builder and what they returned
    \* ---- one run of a pipeline: GeminiTTS, app.generate_audio, VoiceAgent, main
    run,                \* the function the caller called
    ppc,                \* its position
    num_items,          \* how many segments, lines or sections the script parsed to
    gateway,            \* the environment: per item, how its synthesis call ends
    encoder,            \* the environment: ffmpeg is "ok", "absent" or "fails"
    combining,          \* the environment: reading and joining the files is "ok" or "raises"
    output_suffix,      \* the suffix of output_path: ".mp3" or ".wav"
    item,               \* the loop variable i: items handled so far
    temp_files,         \* the local list `temp_files` (the loaded audio, for VoiceAgent)
    disk,               \* the files that exist: path -> data
    attempts,           \* history: the items whose synthesis was called, in order
    reports,            \* history: the items whose failure was reported, in order
    outcome,            \* "running", "returned", "raised" or "error"
    document,           \* the environment: the input document of convert_document
    emitted,            \* what the run hands to its caller: [format, data], once it returns
    \* ---- the default voices of the Gemini pipelines, per place in the code
    dialogue_speakers,  \* the local list `speakers`: the speakers of the segments
    default_voices,     \* per place, the dict speaker_voices built so far
    default_styles      \* per place, the dict speaker_styles built so far

vmVars == <<speaker_voices, voice_index, default_language, vmHist, autoLog>>

readerVars == <<fs, arg, fn, pc, content, pos, script, segments>>

pdsVars == <<lines, speakers, matchLog>>

narrVars == <<sections, current_section, current_text>>

apVars == <<audio_segments, silence_ms, concatenated, combined>>

tbVars == <<clips, tbLog>>

audioVars == <<apVars, tbVars>>

voiceVars == <<dialogue_speakers, default_voices, default_styles>>

pipeVars == <<run, ppc, num_items, gateway, encoder, combining, output_suffix, item,
              temp_files, disk, attempts, reports, outcome, document, emitted, voiceVars>>

ownPipeVars == <<run, ppc, num_items, gateway, encoder, combining, output_suffix, item,
                 temp_files, disk, attempts, reports, outcome, document, emitted>>

\* What the VoiceManager's methods leave alone, what the readers leave alone.
notVM == <<readerVars, pdsVars, narrVars, audioVars, pipeVars>>

notReaders == <<vmVars, audioVars, pipeVars>>

notAudio == <<vmVars, readerVars, pdsVars, narrVars, pipeVars>>

notPipe == <<vmVars, readerVars, pdsVars, narrVars, audioVars>>

vars == <<vmVars, readerVars, pdsVars, narrVars, audioVars, pipeVars>>

(***************************************************************************)
(* Bounds of the model.                                                    *)
(***************************************************************************)
\* Calls made on the managers in one run.
MaxOps == 2

(***************************************************************************)
(* Generic helpers on sequences.                                           *)
(***************************************************************************)
Range(seq) == {seq[i] : i \in 1..Len(seq)}

Last(seq) == seq[Len(seq)]

Min(a, b) == IF a <= b THEN a ELSE b

\* Python's str comparison a < b: code point by code point, a proper prefix first.
LexLess(a, b) ==
    \E k \in 0..Min(Len(a), Len(b)) :
        /\ \A i \in 1..k : a[i] = b[i]
        /\ \/ k = Len(a) /\ k < Len(b)
           \/ k < Len(a) /\ k < Len(b) /\ a[k + 1] < b[k + 1]

\* One insertion step of a stable sort: x goes after every element not greater than it.
RECURSIVE InsertSorted(_, _)
InsertSorted(x, seq) ==
    IF seq = <<>> THEN <<x>>
    ELSE IF LexLess(x, Head(seq)) THEN <<x>> \o seq
    ELSE <<Head(seq)>> \o InsertSorted(x, Tail(seq))

RECURSIVE SortedFrom(_, _)
SortedFrom(seq, acc) ==
    IF seq = <<>> THEN acc ELSE SortedFrom(Tail(seq), InsertSorted(Head(seq), acc))

\* A mutant of sorted(): the iterable is taken in its iteration order.
SortedUnsorted(seq) == seq

\* sorted(iterable) on strings.
Sorted(seq) == SortedFrom(seq, <<>>)

(***************************************************************************)
(* VoiceManager: voice_manager.py                                          *)
(***************************************************************************)
Managers == {1, 2}

\* VoiceConfig(name, language_code, speaking_rate, pitch); the rate is in tenths.
VoiceConfig(n, l, r, p) == [name |-> n, language_code |-> l, speaking_rate |-> r, pitch |-> p]

\* list(JAPANESE_VOICES.values()): male_1, male_2, female_1, female_2, narrator.
JAPANESE_VOICES ==
    << VoiceConfig("ja-JP-Neural2-C", "ja-JP", 10, 0),
       VoiceConfig("ja-JP-Neural2-D", "ja-JP", 10, 0),
       VoiceConfig("ja-JP-Neural2-B", "ja-JP", 10, 0),
       VoiceConfig("ja-JP-Wavenet-A", "ja-JP", 10, 0),
       VoiceConfig("ja-JP-Neural2-B", "ja-JP", 9, 0) >>

\* list(ENGLISH_VOICES.values()), in the same key order.
ENGLISH_VOICES ==
    << VoiceConfig("en-US-Neural2-D", "en-US", 10, 0),
       VoiceConfig("en-US-Neural2-J", "en-US", 10, 0),
       VoiceConfig("en-US-Neural2-F", "en-US", 10, 0),
       VoiceConfig("en-US-Neural2-C", "en-US", 10, 0),
       VoiceConfig("en-US-Neural2-F", "en-US", 9, 0) >>

\* The language codes a manager is constructed with.
Languages == {"ja-JP", "en-US"}

\* default_language.startswith("ja"), on the language codes of the model.
StartsWithJa(lang) == lang \in {"ja-JP", "ja"}

\* The preset list both assignment paths pick: the if/else on default_language.
AvailableVoices(lang) == IF StartsWithJa(lang) THEN JAPANESE_VOICES ELSE ENGLISH_VOICES

\* Speaker names: "A", "B", "AB", "a", "10", "2".
Speakers == { <<65>>, <<66>>, <<65, 66>>, <<97>>, <<49, 48>>, <<50>> }

\* The order in which a Python set of these names happens to iterate (hash order).
HashOrder == << <<66>>, <<97>>, <<65>>, <<50>>, <<65, 66>>, <<49, 48>> >>

\* The speaker sets a script hands to assign_voices_for_dialogue.
DialogueSets == {S \in SUBSET Speakers : Cardinality(S) <= 3 \/ S = Speakers}

\* list(speakers) for a set: its members in hash order.
IterOrder(S) == SelectSeq(HashOrder, LAMBDA x : x \in S)

\* Voice configurations a caller passes to assign_voice: one of its own, one preset.
ExplicitVoices ==
    { VoiceConfig("ja-JP-Standard-A", "ja-JP", 12, 2), JAPANESE_VOICES[1] }

\* dict assignment d[k] = v.
DictSet(d, k, v) == (k :> v) @@ d

\* _auto_assign_voice: the preset at _voice_index modulo the list, then the index advances.
AutoAssignVoice(sv, idx, lang, speaker) ==
    LET voices == AvailableVoices(lang)
        voice == voices[(idx % Len(voices)) + 1]
    IN  [ sv |-> DictSet(sv, speaker, voice), idx |-> idx + 1,
          log |-> << [speaker |-> speaker, voice |-> voice] >> ]

\* A mutant of the loop body: the voice is stored whether or not the speaker has one.
BatchStepOverwrite(acc, available_voices, i, speaker) ==
    LET voice == available_voices[(i % Len(available_voices)) + 1]
    IN  [ sv |-> DictSet(acc.sv, speaker, voice),
          log |-> Append(acc.log, [speaker |-> speaker, voice |-> voice]) ]

\* A mutant of the loop body: past the end of the list the last preset is used.
BatchStepNoCycle(acc, available_voices, i, speaker) ==
    IF speaker \notin DOMAIN acc.sv
    THEN LET voice == available_voices[Min(i, Len(available_voices) - 1) + 1]
         IN  [ sv |-> DictSet(acc.sv, speaker, voice),
               log |-> Append(acc.log, [speaker |-> speaker, voice |-> voice]) ]
    ELSE acc

\* One iteration of the loop of assign_voices_for_dialogue, i being enumerate's index.
BatchStep(acc, available_voices, i, speaker) ==
    IF speaker \notin DOMAIN acc.sv
    THEN LET voice == available_voices[(i % Len(available_voices)) + 1]
         IN  [ sv |-> DictSet(acc.sv, speaker, voice),
               log |-> Append(acc.log, [speaker |-> speaker, voice |-> voice]) ]
    ELSE acc

\* for i, speaker in enumerate(sorted(speakers)), from position k (1-based) on.
RECURSIVE BatchLoop(_, _, _, _)
BatchLoop(acc, available_voices, order, k) ==
    IF k > Len(order) THEN acc
    ELSE BatchLoop(BatchStep(acc, available_voices, k - 1, order[k]),
                   available_voices, order, k + 1)

\* The effect of assign_voices_for_dialogue on speaker_voices; `it` is the
\* iteration order of the set passed in.
BatchAssign(sv, lang, it) ==
    BatchLoop([sv |-> sv, log |-> <<>>], AvailableVoices(lang), Sorted(it), 1)

OpCount == Len(vmHist[1]) + Len(vmHist[2])

\* assign_voice(speaker, voice_config)
AssignVoice(m, speaker, voice_config) ==
    /\ OpCount < MaxOps
    /\ speaker_voices' = [speaker_voices EXCEPT ![m] = DictSet(@, speaker, voice_config)]
    /\ vmHist' = [vmHist EXCEPT ![m] =
                    Append(@, [op |-> "assign_voice", speakers |-> {speaker},
                               it |-> <<speaker>>, ret |-> speaker_voices'[m]])]
    /\ UNCHANGED <<voice_index, default_language, autoLog, notVM>>

\* get_voice(speaker)
GetVoice(m, speaker) ==
    /\ OpCount < MaxOps
    /\ IF speaker \notin DOMAIN speaker_voices[m]
       THEN LET r == AutoAssignVoice(speaker_voices[m], voice_index[m],
                                     default_language[m], speaker)
            IN  /\ speaker_voices' = [speaker_voices EXCEPT ![m] = r.sv]
                /\ voice_index' = [voice_index EXCEPT ![m] = r.idx]
                /\ autoLog' = [autoLog EXCEPT ![m] = @ \o r.log]
       ELSE UNCHANGED <<speaker_voices, voice_index, autoLog>>
    /\ vmHist' = [vmHist EXCEPT ![m] =
                    Append(@, [op |-> "get_voice", speakers |-> {speaker},
                               it |-> <<speaker>>, ret |-> speaker_voices'[m]])]
    /\ UNCHANGED <<default_language, notVM>>

\* assign_voices_for_dialogue(speakers), the set iterating in the order `it`
AssignVoicesForDialogue(m, it) ==
    /\ OpCount < MaxOps
    /\ LET r == BatchAssign(speaker_voices[m], default_language[m], it)
       IN  /\ speaker_voices' = [speaker_voices EXCEPT ![m] = r.sv]
           /\ autoLog' = [autoLog EXCEPT ![m] = @ \o r.log]
    /\ vmHist' = [vmHist EXCEPT ![m] =
                    Append(@, [op |-> "assign_voices_for_dialogue", speakers |-> Range(it),
                               it |-> it, ret |-> speaker_voices'[m]])]
    /\ UNCHANGED <<voice_index, default_language, notVM>>

\* VoiceManager.__init__ for every manager.
InitVM ==
    /\ speaker_voices = [m \in Managers |-> <<>>]
    /\ voice_index = [m \in Managers |-> 0]
    /\ vmHist = [m \in Managers |-> <<>>]
    /\ autoLog = [m \in Managers |-> <<>>]

(***************************************************************************)
(* Text helpers: str.strip, str.split, str.join and the pieces of the      *)
(* regular expressions, computed on code points as Python computes them.   *)
(***************************************************************************)
NL == 10            \* "\n"
HASH == 35          \* "#"
COLON == 58         \* ":"
FWCOLON == 65306    \* the full-width colon
LBRACKET == 91      \* "["
RBRACKET == 93      \* "]"
LLENT == 12304      \* the left lenticular bracket
RLENT == 12305      \* the right lenticular bracket

\* The characters str.isspace() accepts; the class \s of re is the same set.
WhiteSpace ==
    {9, 10, 11, 12, 13, 28, 29, 30, 31, 32, 133, 160, 5760,
     8232, 8233, 8239, 8287, 12288} \cup (8192..8202)

IsSpace(c) == c \in WhiteSpace

\* s.lstrip()
RECURSIVE LStrip(_)
LStrip(s) == IF s # <<>> /\ IsSpace(Head(s)) THEN LStrip(Tail(s)) ELSE s

\* s.rstrip()
RECURSIVE RStrip(_)
RStrip(s) ==
    IF s # <<>> /\ IsSpace(s[Len(s)]) THEN RStrip(SubSeq(s, 1, Len(s) - 1)) ELSE s

\* s.strip()
Strip(s) == RStrip(LStrip(s))

RECURSIVE SplitFrom(_, _, _)
SplitFrom(s, sep, cur) ==
    IF s = <<>> THEN <<cur>>
    ELSE IF Head(s) = sep THEN <<cur>> \o SplitFrom(Tail(s), sep, <<>>)
    ELSE SplitFrom(Tail(s), sep, Append(cur, Head(s)))

\* s.split(sep) for a one-character separator: there is always at least one piece.
Split(s, sep) == SplitFrom(s, sep, <<>>)

\* sep.join(parts)
RECURSIVE Join(_, _)
Join(parts, sep) ==
    IF parts = <<>> THEN <<>>
    ELSE IF Len(parts) = 1 THEN parts[1]
    ELSE parts[1] \o sep \o Join(Tail(parts), sep)

\* The least member of a non-empty set of integers, the greatest one.
MinOf(H) == CHOOSE k \in H : \A j \in H : k <= j

MaxOf(H) == CHOOSE k \in H : \A j \in H : k >= j

\* The first position >= i of s whose character is in C; Len(s) + 1 when there is none.
FirstIn(s, i, C) ==
    LET H == {k \in i..Len(s) : s[k] \in C}
    IN  IF H = {} THEN Len(s) + 1 ELSE MinOf(H)

\* The first position >= i of s whose character is not in C; Len(s) + 1 when none.
FirstNotIn(s, i, C) ==
    LET H == {k \in i..Len(s) : s[k] \notin C}
    IN  IF H = {} THEN Len(s) + 1 ELSE MinOf(H)

\* `(.+)$` tried at position j: `.` takes no newline, `$` is the end of the string or the
\* place before a newline that ends it. The position of the last character taken, or 0.
DotPlusEnd(s, j) ==
    IF j > Len(s) THEN 0
    ELSE IF \A k \in j..Len(s) : s[k] # NL THEN Len(s)
    ELSE IF s[Len(s)] = NL /\ j < Len(s) /\ \A k \in j..(Len(s) - 1) : s[k] # NL
         THEN Len(s) - 1
    ELSE 0

\* `\s*(.+)$` tried at position i: the greedy \s* gives whitespace back one character at
\* a time until `(.+)$` matches. The position where group 2 starts, or 0.
TextStart(s, i) ==
    LET w == FirstNotIn(s, i, WhiteSpace)
        J == {j \in i..w : DotPlusEnd(s, j) # 0}
    IN  IF J = {} THEN 0 ELSE MaxOf(J)

NoMatch == [ok |-> FALSE, g1 |-> <<>>, g2 |-> <<>>]

\* `\s*[:：]\s*(.+)$` tried at position i, group 1 being g1.
ColonThenText(s, i, g1) ==
    LET k == FirstNotIn(s, i, WhiteSpace)
    IN  IF k > Len(s) \/ s[k] \notin {COLON, FWCOLON} THEN NoMatch
        ELSE LET t == TextStart(s, k + 1)
             IN  IF t = 0 THEN NoMatch
                 ELSE [ok |-> TRUE, g1 |-> g1, g2 |-> SubSeq(s, t, DotPlusEnd(s, t))]

\* re.match of `^O([^C]+)C\s*[:：]\s*(.+)$` for an opening bracket O and a closing one C:
\* group 1 cannot hold C and must be followed by it, so it ends at the first C.
MatchDelimited(s, open, close) ==
    IF s = <<>> \/ s[1] # open THEN NoMatch
    ELSE LET c == FirstIn(s, 2, {close})
         IN  IF c > Len(s) \/ c = 2 THEN NoMatch
             ELSE ColonThenText(s, c + 1, SubSeq(s, 2, c - 1))

\* re.match of `^([^:：\[\]【】]+)\s*[:：]\s*(.+)$`: group 1 is greedy over a class that
\* holds whitespace and no colon, so a match needs a colon right after the longest run.
MatchBare(s) ==
    LET r == FirstIn(s, 1, {COLON, FWCOLON, LBRACKET, RBRACKET, LLENT, RLENT})
    IN  IF r = 1 \/ r > Len(s) \/ s[r] \notin {COLON, FWCOLON} THEN NoMatch
        ELSE ColonThenText(s, r, SubSeq(s, 1, r - 1))

(***************************************************************************)
(* The file system the readers see, and the `content` argument.            *)
(***************************************************************************)
\* Path("") is Path("."), the working directory.
PathOf(value) == IF value = <<>> THEN <<46>> ELSE value

\* The working directory is the one directory of the model.
IsDir(path) == path = <<46>>

\* Path(...).exists()
Exists(path, files) == IsDir(path) \/ path \in DOMAIN files

\* The files beside the script: none, or one named "x" holding a three-line script.
FsChoices == { <<>>, (<<120>> :> <<91, 65, 93, 58, 32, 120, 10, 10, 91, 66, 93, 58, 32, 121>>) }

\* Lines 44-47 and 92-95: a Path is read; a str that names an existing path is read
\* too; read_text raises on a directory or a missing file.
OpenContent(a, files) ==
    IF a.kind = "Path" \/ Exists(PathOf(a.value), files)
    THEN IF PathOf(a.value) \in DOMAIN files
         THEN [raised |-> FALSE, content |-> files[PathOf(a.value)]]
         ELSE [raised |-> TRUE, content |-> a.value]
    ELSE [raised |-> FALSE, content |-> a.value]

(***************************************************************************)
(* parse_dialogue_script: script_parser.py                                 *)
(***************************************************************************)
DialogueLine(speaker, text, n) == [speaker |-> speaker, text |-> text, line_number |-> n]

\* re.match(patterns[p], line), p counted from 1.
MatchPattern(p, s) ==
    CASE p = 1 -> MatchDelimited(s, LBRACKET, RBRACKET)
      [] p = 2 -> MatchDelimited(s, LLENT, RLENT)
      [] p = 3 -> MatchBare(s)

NumPatterns == 3

\* for pattern in patterns: ... break, from pattern p on: the first pattern that
\* matches, with the number of patterns tried.
RECURSIVE FirstMatch(_, _)
FirstMatch(s, p) ==
    IF p > NumPatterns THEN [pattern |-> 0, tried |-> NumPatterns, m |-> NoMatch]
    ELSE IF MatchPattern(p, s).ok THEN [pattern |-> p, tried |-> p, m |-> MatchPattern(p, s)]
    ELSE FirstMatch(s, p + 1)

\* A mutant of the append: the line is stored without the `if speaker and text` test.
StoreLineUnchecked(acc, speaker, text, n) ==
    [lines |-> Append(acc.lines, DialogueLine(speaker, text, n)),
     speakers |-> acc.speakers \cup {speaker}, stored |-> TRUE]

\* if speaker and text: lines.append(...); speakers.add(speaker)
StoreLine(acc, speaker, text, n) ==
    IF speaker # <<>> /\ text # <<>>
    THEN [lines |-> Append(acc.lines, DialogueLine(speaker, text, n)),
          speakers |-> acc.speakers \cup {speaker}, stored |-> TRUE]
    ELSE [lines |-> acc.lines, speakers |-> acc.speakers, stored |-> FALSE]

\* A mutant of enumerate(..., start=1): the count starts at 0.
LineNumberFromZero(i) == i

\* enumerate(content.split("\n"), start=1): the number of the piece at 0-based index i.
LineNumber(i) == i + 1

\* The body of the loop for the piece `raw` numbered n.
ParseLine(acc, raw, n) ==
    LET line == Strip(raw)
    IN  IF line = <<>> \/ Head(line) = HASH
        THEN [lines |-> acc.lines, speakers |-> acc.speakers,
              log |-> [line_number |-> n, pattern |-> 0, tried |-> 0, stored |-> FALSE]]
        ELSE LET f == FirstMatch(line, 1)
             IN  IF f.pattern = 0
                 THEN [lines |-> acc.lines, speakers |-> acc.speakers,
                       log |-> [line_number |-> n, pattern |-> 0, tried |-> f.tried,
                                stored |-> FALSE]]
                 ELSE LET r == StoreLine(acc, Strip(f.m.g1), Strip(f.m.g2), n)
                      IN  [lines |-> r.lines, speakers |-> r.speakers,
                           log |-> [line_number |-> n, pattern |-> f.pattern,
                                    tried |-> f.tried, stored |-> r.stored]]

\* Lines 44-56: the content is opened, lines and speakers start empty.
PdsOpen ==
    /\ fn = "parse_dialogue_script"
    /\ pc = "open"
    /\ LET o == OpenContent(arg, fs)
       IN  /\ content' = o.content
           /\ pc' = IF o.raised THEN "raised" ELSE "loop"
    /\ lines' = <<>>
    /\ speakers' = {}
    /\ UNCHANGED <<fs, arg, fn, pos, script, segments, matchLog, narrVars, notReaders>>

\* Lines 58-74: one iteration of the loop over content.split("\n").
PdsLine ==
    /\ fn = "parse_dialogue_script"
    /\ pc = "loop"
    /\ pos < Len(Split(content, NL))
    /\ LET r == ParseLine([lines |-> lines, speakers |-> speakers],
                          Split(content, NL)[pos + 1], LineNumber(pos))
       IN  /\ lines' = r.lines
           /\ speakers' = r.speakers
           /\ matchLog' = Append(matchLog, r.log)
    /\ pos' = pos + 1
    /\ UNCHANGED <<fs, arg, fn, content, pc, script, segments, narrVars, notReaders>>

\* Line 76: return DialogueScript(lines=lines, speakers=speakers)
PdsReturn ==
    /\ fn = "parse_dialogue_script"
    /\ pc = "loop"
    /\ pos = Len(Split(content, NL))
    /\ pc' = "done"
    /\ UNCHANGED <<fs, arg, fn, content, pos, script, segments, pdsVars, narrVars, notReaders>>

\* The lines a dialogue script is written from.
DialogueLinePool ==
    { <<>>,                 \* an empty line
      <<91, 65, 93, 58, 32, 120>>,
      <<32, 91, 66, 93, 65306, 121, 32>>,          \* full-width colon, surrounded by spaces
      <<12304, 65, 12305, 58, 32, 122>>,
      <<66, 32, 58, 32, 121, 32, 122>>,
      <<35, 32, 99, 58, 32, 100>>,            \* a comment
      <<91, 32, 93, 58, 32, 120>>,            \* a blank speaker in brackets
      <<12304, 12288, 12305, 58, 32, 120>>,          \* a blank (ideographic space) speaker
      <<91, 65, 93, 32, 120>>,             \* no colon
      <<65, 58>>,                \* no text
      <<97, 58, 98, 58, 99>>,
      <<120>> }                \* no tag; also the name of the file of FsChoices

\* Lines of one script.
MaxLines == 3

\* The scripts: 1..MaxLines pool lines joined by newlines ("" is the one empty line).
DialogueTexts ==
    {Join(ls, <<NL>>) : ls \in UNION {[1..n -> DialogueLinePool] : n \in 1..MaxLines}}

\* The arguments: every script as a str; a Path to the file, to a missing file and "".
DialogueArgs ==
    {[kind |-> "str", value |-> t] : t \in DialogueTexts}
    \cup {[kind |-> "Path", value |-> p] : p \in {<<120>>, <<121>>, <<>>}}

(***************************************************************************)
(* parse_narration_script: script_parser.py                                *)
(***************************************************************************)
\* The title of the text before any heading.
Introduction == <<73, 110, 116, 114, 111, 100, 117, 99, 116, 105, 111, 110>>

\* line.startswith(prefix)
StartsWith(s, prefix) ==
    Len(s) >= Len(prefix) /\ SubSeq(s, 1, Len(prefix)) = prefix

\* line.lstrip("#")
RECURSIVE LStripHash(_)
LStripHash(s) == IF s # <<>> /\ Head(s) = HASH THEN LStripHash(Tail(s)) ELSE s

\* if current_text: sections.append((current_section, "\n".join(current_text).strip()))
Flush(acc) ==
    IF acc.current_text # <<>>
    THEN Append(acc.sections,
                <<acc.current_section, Strip(Join(acc.current_text, <<NL>>))>>)
    ELSE acc.sections

\* A mutant of the loop body: a single-# line is kept as body text.
NarrationLineKeepsComments(acc, raw) ==
    LET line == Strip(raw)
    IN  IF StartsWith(line, <<HASH, HASH>>)
        THEN [sections |-> Flush(acc), current_text |-> <<>>,
              current_section |-> Strip(LStripHash(line))]
        ELSE IF line # <<>>
        THEN [acc EXCEPT !.current_text = Append(@, line)]
        ELSE acc

\* The body of the loop of parse_narration_script for the piece `raw`.
NarrationLine(acc, raw) ==
    LET line == Strip(raw)
    IN  IF StartsWith(line, <<HASH, HASH>>)
        THEN [sections |-> Flush(acc), current_text |-> <<>>,
              current_section |-> Strip(LStripHash(line))]
        ELSE IF StartsWith(line, <<HASH>>)
        THEN acc
        ELSE IF line # <<>>
        THEN [acc EXCEPT !.current_text = Append(@, line)]
        ELSE acc

NarrState ==
    [sections |-> sections, current_section |-> current_section,
     current_text |-> current_text]

\* Lines 92-99: the content is opened; no section yet, the title "Introduction".
NarrOpen ==
    /\ fn = "parse_narration_script"
    /\ pc = "open"
    /\ LET o == OpenContent(arg, fs)
       IN  /\ content' = o.content
           /\ pc' = IF o.raised THEN "raised" ELSE "loop"
    /\ sections' = <<>>
    /\ current_section' = Introduction
    /\ current_text' = <<>>
    /\ UNCHANGED <<fs, arg, fn, pos, script, segments, pdsVars, notReaders>>

\* Lines 101-112: one iteration of the loop over content.split("\n").
NarrLine ==
    /\ fn = "parse_narration_script"
    /\ pc = "loop"
    /\ pos < Len(Split(content, NL))
    /\ LET r == NarrationLine(NarrState, Split(content, NL)[pos + 1])
       IN  /\ sections' = r.sections
           /\ current_section' = r.current_section
           /\ current_text' = r.current_text
    /\ pos' = pos + 1
    /\ UNCHANGED <<fs, arg, fn, content, pc, script, segments, pdsVars, notReaders>>

\* Lines 114-117: the last section is flushed and the list returned.
NarrReturn ==
    /\ fn = "parse_narration_script"
    /\ pc = "loop"
    /\ pos = Len(Split(content, NL))
    /\ sections' = Flush(NarrState)
    /\ pc' = "done"
    /\ UNCHANGED <<fs, arg, fn, content, pos, script, segments, current_section,
                   current_text, pdsVars, notReaders>>

\* The lines a narration script is written from.
NarrationLinePool ==
    { <<>>,
      <<35, 35, 32, 65>>,
      <<32, 35, 35, 35, 32, 32, 66, 32, 99, 32>>,        \* a deeper heading, surrounded by spaces
      <<35, 32, 84>>,               \* a top-level heading
      <<35, 35>>,                \* a heading with no text
      <<111, 110, 101>>,
      <<32, 116, 32, 119, 32>>,
      <<120>> }                \* also the name of the file of FsChoices

\* Lines of one narration script.
MaxNarrLines == 4

NarrationTexts ==
    {Join(ls, <<NL>>) : ls \in UNION {[1..n -> NarrationLinePool] : n \in 1..MaxNarrLines}}

NarrationArgs ==
    {[kind |-> "str", value |-> t] : t \in NarrationTexts}
    \cup {[kind |-> "Path", value |-> p] : p \in {<<120>>, <<121>>, <<>>}}

(***************************************************************************)
(* parse_dialogue of the web app: app.py                                   *)
(***************************************************************************)
\* The class \d of re on str: the ASCII digits and the full-width digits.
Digits == (48..57) \cup (65296..65305)

Letters == (65..90) \cup (97..122)

Colons == {COLON, FWCOLON}

\* content.replace(old, new), from position i on: left to right, no overlap.
RECURSIVE ReplaceAll(_, _, _, _)
ReplaceAll(s, old, new, i) ==
    IF i > Len(s) THEN <<>>
    ELSE IF i + Len(old) - 1 <= Len(s) /\ SubSeq(s, i, i + Len(old) - 1) = old
    THEN new \o ReplaceAll(s, old, new, i + Len(old))
    ELSE <<s[i]>> \o ReplaceAll(s, old, new, i + 1)

\* `話者\d+` tried at position i: the position of its last digit (\d+ is greedy), or 0.
TagEnd(s, i) ==
    IF i + 2 <= Len(s) /\ s[i] = 35441 /\ s[i + 1] = 32773 /\ s[i + 2] \in Digits
    THEN FirstNotIn(s, i + 2, Digits) - 1
    ELSE 0

\* `[:：]?\s*` tried at position p: the first position it leaves unconsumed.
AfterOptColonSpace(s, p) ==
    FirstNotIn(s, IF p <= Len(s) /\ s[p] \in Colons THEN p + 1 ELSE p, WhiteSpace)

NoRule == [ok |-> FALSE, g1 |-> <<>>, next |-> 0]

\* One pattern of the re.sub calls tried at position i of s: group 1 and the first
\* position after the match.
\*   "fwparen"  line 48   `（(話者\d+)）[:：]?\s*`
\*   "paren"    line 49   `\((話者\d+)\)[:：]?\s*`
\*   "bare"     line 56   `(?<!\[)(話者\d+)[:：]\s*`
\*   "letter"   line 59   `^([A-Za-z])[:：]\s*` with re.MULTILINE
RuleAt(rule, s, i) ==
    CASE rule \in {"fwparen", "paren"} ->
            LET open == IF rule = "fwparen" THEN 65288 ELSE 40
                close == IF rule = "fwparen" THEN 65289 ELSE 41
                e == TagEnd(s, i + 1)
            IN  IF s[i] = open /\ e # 0 /\ e + 1 <= Len(s) /\ s[e + 1] = close
                THEN [ok |-> TRUE, g1 |-> SubSeq(s, i + 1, e),
                      next |-> AfterOptColonSpace(s, e + 2)]
                ELSE NoRule
      [] rule = "bare" ->
            LET e == TagEnd(s, i)
            IN  IF (i = 1 \/ s[i - 1] # LBRACKET) /\ e # 0
                   /\ e + 1 <= Len(s) /\ s[e + 1] \in Colons
                THEN [ok |-> TRUE, g1 |-> SubSeq(s, i, e),
                      next |-> FirstNotIn(s, e + 2, WhiteSpace)]
                ELSE NoRule
      [] rule = "letter" ->
            IF (i = 1 \/ s[i - 1] = NL) /\ s[i] \in Letters
               /\ i + 1 <= Len(s) /\ s[i + 1] \in Colons
            THEN [ok |-> TRUE, g1 |-> <<s[i]>>, next |-> FirstNotIn(s, i + 2, WhiteSpace)]
            ELSE NoRule

\* re.sub(pattern, r'[\1]: ', content), from position i on.
RECURSIVE ReSub(_, _, _)
ReSub(rule, s, i) ==
    IF i > Len(s) THEN <<>>
    ELSE LET m == RuleAt(rule, s, i)
         IN  IF m.ok THEN <<LBRACKET>> \o m.g1 \o <<93, 58, 32>> \o ReSub(rule, s, m.next)
             ELSE <<s[i]>> \o ReSub(rule, s, i + 1)

\* Lines 52-53: the full-width digits 1 to 5 become ASCII digits.
HalfWidthDigits(s) ==
    [k \in 1..Len(s) |-> IF s[k] \in 65297..65301 THEN s[k] - 65297 + 49 ELSE s[k]]

\* Lines 44-45.
RewriteSpeaker(s) ==
    ReplaceAll(ReplaceAll(s, <<83, 112, 101, 97, 107, 101, 114, 32, 49, 58>>, <<91, 35441, 32773, 49, 93, 58>>, 1), <<83, 112, 101, 97, 107, 101, 114, 32, 50, 58>>, <<91, 35441, 32773, 50, 93, 58>>, 1)

\* The rewrite rules of lines 44-59, in the order the code applies them.
RewriteStage(stage, s) ==
    CASE stage = 1 -> RewriteSpeaker(s)
      [] stage = 2 -> ReSub("fwparen", s, 1)
      [] stage = 3 -> ReSub("paren", s, 1)
      [] stage = 4 -> HalfWidthDigits(s)
      [] stage = 5 -> ReSub("bare", s, 1)
      [] stage = 6 -> ReSub("letter", s, 1)

NumStages == 6

\* Lines 44-59 as a whole, from stage k on.
RECURSIVE NormalizeFrom(_, _)
NormalizeFrom(s, k) ==
    IF k > NumStages THEN s ELSE NormalizeFrom(RewriteStage(k, s), k + 1)

\* Line 62, `\[(話者\d+|[^\]]+)\][:：]?\s*(.+)`, tried at position i. Group 1 ends at the
\* first "]". `[:：]?` and `\s*` are greedy and give back, the whitespace first, until
\* `.+` finds a character other than a newline; `.+` then runs to the end of the line.
SegmentAt(s, i) ==
    LET c == FirstIn(s, i + 1, {RBRACKET})
        colon == c + 1 <= Len(s) /\ s[c + 1] \in Colons
        p == IF colon THEN c + 2 ELSE c + 1
        w == FirstNotIn(s, p, WhiteSpace)
        J == {j \in p..Min(w, Len(s)) : s[j] # NL}
        t == IF J # {} THEN MaxOf(J) ELSE IF colon THEN c + 1 ELSE 0
    IN  IF s[i] # LBRACKET \/ c > Len(s) \/ c = i + 1 \/ t = 0
        THEN [ok |-> FALSE, speaker |-> <<>>, text |-> <<>>, next |-> 0]
        ELSE [ok |-> TRUE, speaker |-> SubSeq(s, i + 1, c - 1),
              text |-> SubSeq(s, t, FirstIn(s, t, {NL}) - 1),
              next |-> FirstIn(s, t, {NL})]

\* Lines 63-67: re.finditer from position i on; a segment is kept when its text,
\* stripped, is not empty.
RECURSIVE FindSegments(_, _)
FindSegments(s, i) ==
    IF i > Len(s) THEN <<>>
    ELSE LET m == SegmentAt(s, i)
         IN  IF ~m.ok THEN FindSegments(s, i + 1)
             ELSE (IF Strip(m.text) # <<>>
                   THEN << [speaker |-> Strip(m.speaker), text |-> Strip(m.text)] >>
                   ELSE <<>>) \o FindSegments(s, m.next)

\* parse_dialogue(content) as a whole.
ParseDialogue(s) == FindSegments(NormalizeFrom(s, 1), 1)

\* One rewrite statement group of lines 44-59.
AppRewrite ==
    /\ fn = "parse_dialogue"
    /\ pc = "rewrite"
    /\ pos < NumStages
    /\ content' = RewriteStage(pos + 1, content)
    /\ pos' = pos + 1
    /\ UNCHANGED <<fs, arg, fn, pc, script, segments, pdsVars, narrVars, notReaders>>

\* Lines 61-67: the pattern is matched over the rewritten content.
AppFind ==
    /\ fn = "parse_dialogue"
    /\ pc = "rewrite"
    /\ pos = NumStages
    /\ segments' = FindSegments(content, 1)
    /\ pc' = "done"
    /\ UNCHANGED <<fs, arg, fn, content, pos, script, pdsVars, narrVars, notReaders>>

\* The speaker-tag dialects: `Speaker 1:`, `話者1:`, `（話者1）`, `(話者1)`, `[話者1]:`.
Dialects == {"speaker", "bare", "fwparen", "paren", "bracket"}

\* The digit n, full-width or ASCII.
DigitChar(n, fw) == IF fw THEN 65296 + n ELSE 48 + n

\* A line of a script as its author writes it in a dialect.
RenderLine(l) ==
    LET d == <<DigitChar(l.n, l.fw)>>
    IN  CASE l.dialect = "speaker" -> <<83, 112, 101, 97, 107, 101, 114, 32>> \o d \o <<58, 32>> \o l.text
          [] l.dialect = "bare"    -> <<35441, 32773>> \o d \o <<58, 32>> \o l.text
          [] l.dialect = "fwparen" -> <<65288, 35441, 32773>> \o d \o <<65289>> \o l.text
          [] l.dialect = "paren"   -> <<40, 35441, 32773>> \o d \o <<41, 32>> \o l.text
          [] l.dialect = "bracket" -> <<91, 35441, 32773>> \o d \o <<93, 58, 32>> \o l.text

\* The same line in canonical form, `[話者N]: text`.
CanonicalLine(l) == <<91, 35441, 32773>> \o <<DigitChar(l.n, FALSE)>> \o <<93, 58, 32>> \o l.text

RenderScript(sc) == Join([k \in 1..Len(sc) |-> RenderLine(sc[k])], <<NL>>)

CanonicalScript(sc) == Join([k \in 1..Len(sc) |-> CanonicalLine(sc[k])], <<NL>>)

\* What the speakers say: plain text, a full-width digit, dialect markers inside.
SpokenTexts == { <<104, 105>>, <<65299, 26178>>, <<115, 101, 101, 32, 40, 35441, 32773, 50, 41>>, <<35441, 32773, 50, 58, 32, 121>> }

SpeakerNumbers == {1, 2, 5}

ScriptLines ==
    [dialect : Dialects, n : SpeakerNumbers, fw : BOOLEAN, text : SpokenTexts]

\* Lines of one dialect script.
MaxScriptLines == 2

Scripts == UNION {[1..n -> ScriptLines] : n \in 1..MaxScriptLines}

(***************************************************************************)
(* AudioSegment of pydub, as the audio code uses it. A buffer is its data: *)
(* a sequence of runs [src, n] of n > 0 frames that come from the source   *)
(* src (0 is silence). Every buffer of the model has the format of         *)
(* AudioSegment.silent(): mono, 16 bit, FrameRate frames per second.       *)
(***************************************************************************)
\* The frame rate AudioSegment.silent() uses when none is given.
FrameRate == 11025

SILENCE == 0

\* A run of f frames of the source src; no frames, no data.
Run(src, f) == IF f = 0 THEN <<>> ELSE << [src |-> src, n |-> f] >>

\* AudioSegment.empty()
EmptySegment == <<>>

\* audio.frame_count()
RECURSIVE FrameCount(_)
FrameCount(audio) ==
    IF audio = <<>> THEN 0 ELSE Head(audio).n + FrameCount(Tail(audio))

\* round(x / y) for x >= 0 and y > 0, as Python 3 rounds: halves go to the even side.
RoundDiv(x, y) ==
    LET q == x \div y
        r == x % y
    IN  IF 2 * r < y THEN q
        ELSE IF 2 * r > y THEN q + 1
        ELSE IF q % 2 = 0 THEN q ELSE q + 1

\* len(audio): round(1000 * frame_count / frame_rate), the length in milliseconds.
LenMs(audio) == RoundDiv(1000 * FrameCount(audio), FrameRate)

\* AudioSegment.silent(duration): int(frame_rate * duration / 1000) frames of zeros,
\* and bytes * n is empty for n < 0, so a negative duration gives the empty buffer.
Silent(duration) ==
    IF duration < 0 THEN EmptySegment ELSE Run(SILENCE, (FrameRate * duration) \div 1000)

\* a + b on buffers of one format: the data of a followed by the data of b.
Plus(a, b) == a \o b

\* The outcome of a call: what it returned, or that it raised.
Returned(audio) == [called |-> TRUE, raised |-> FALSE, audio |-> audio]

NotCalled == [called |-> FALSE, raised |-> FALSE, audio |-> <<>>]

(***************************************************************************)
(* parse_dialogue of gemini_dialogue.py: three patterns, each one matched  *)
(* over the whole content. A segment carries, as history, the position of  *)
(* the content where its match starts.                                     *)
(***************************************************************************)
\* The patterns of lines 20-24.
NumGeminiPatterns == 3

NoSegment == [ok |-> FALSE, speaker |-> <<>>, text |-> <<>>, at |-> 0, next |-> 0]

\* `:\s*(.+)` tried at position p, for a group 1 that is s[g..h] of a match that starts
\* at position i: the greedy \s* gives whitespace back until `.` finds a character
\* that is not a newline; (.+) then runs to the end of the line.
ColonSpaceText(s, i, g, h, p) ==
    LET w == FirstNotIn(s, p + 1, WhiteSpace)
        J == {j \in (p + 1)..Min(w, Len(s)) : s[j] # NL}
    IN  IF p > Len(s) \/ s[p] # COLON \/ J = {} THEN NoSegment
        ELSE [ok |-> TRUE, speaker |-> SubSeq(s, g, h),
              text |-> SubSeq(s, MaxOf(J), FirstIn(s, MaxOf(J), {NL}) - 1),
              at |-> i, next |-> FirstIn(s, MaxOf(J), {NL})]

\* The end of the literal `Speaker` at position i followed by `\s*\d+`, or 0.
SpeakerTagEnd(s, i) ==
    LET word == <<83, 112, 101, 97, 107, 101, 114>>
        d == FirstNotIn(s, i + 7, WhiteSpace)
    IN  IF i + 6 <= Len(s) /\ SubSeq(s, i, i + 6) = word /\ d <= Len(s) /\ s[d] \in Digits
        THEN FirstNotIn(s, d, Digits) - 1
        ELSE 0

\* `話者\d+` at position i with every digit \d matches, or 0.
BareTagEnd(s, i) ==
    IF i + 2 <= Len(s) /\ s[i] = 35441 /\ s[i + 1] = 32773 /\ s[i + 2] \in Digits
    THEN FirstNotIn(s, i + 2, Digits) - 1
    ELSE 0

\* Pattern p of lines 20-24 tried at position i of s.
PatternAt(p, s, i) ==
    CASE p = 1 ->       \* \[(話者\d+|[^\]]+)\]:\s*(.+) : group 1 ends at the first ]
            LET c == FirstIn(s, i + 1, {RBRACKET})
            IN  IF s[i] # LBRACKET \/ c > Len(s) \/ c = i + 1 THEN NoSegment
                ELSE ColonSpaceText(s, i, i + 1, c - 1, c + 1)
      [] p = 2 ->       \* (Speaker\s*\d+):\s*(.+)
            LET e == SpeakerTagEnd(s, i)
            IN  IF e = 0 THEN NoSegment ELSE ColonSpaceText(s, i, i, e, e + 1)
      [] p = 3 ->       \* (話者\d+):\s*(.+)
            LET e == BareTagEnd(s, i)
            IN  IF e = 0 THEN NoSegment ELSE ColonSpaceText(s, i, i, e, e + 1)

\* Lines 27-31: re.finditer(pattern, content) from position i on; a match is kept when
\* its text, stripped, is not empty.
RECURSIVE FindAll(_, _, _)
FindAll(p, s, i) ==
    IF i > Len(s) THEN <<>>
    ELSE LET m == PatternAt(p, s, i)
         IN  IF ~m.ok THEN FindAll(p, s, i + 1)
             ELSE (IF Strip(m.text) # <<>>
                   THEN << [speaker |-> Strip(m.speaker), text |-> Strip(m.text), at |-> m.at] >>
                   ELSE <<>>) \o FindAll(p, s, m.next)

\* Line 26, one iteration: the matches of the next pattern are appended.
GdPattern ==
    /\ fn = "gemini_dialogue.parse_dialogue"
    /\ pc = "patterns"
    /\ pos < NumGeminiPatterns
    /\ segments' = segments \o FindAll(pos + 1, content, 1)
    /\ pos' = pos + 1
    /\ UNCHANGED <<fs, arg, fn, pc, content, script, pdsVars, narrVars, notReaders>>

\* Line 33: return segments
GdReturn ==
    /\ fn = "gemini_dialogue.parse_dialogue"
    /\ pc = "patterns"
    /\ pos = NumGeminiPatterns
    /\ pc' = "done"
    /\ UNCHANGED <<fs, arg, fn, content, pos, script, segments, pdsVars, narrVars, notReaders>>

(***************************************************************************)
(* AudioProcessor: audio/processor.py                                      *)
(***************************************************************************)
\* Lines 54-56: result = segments[0]; for segment in segments[1:]: result += segment
RECURSIVE ConcatenateLoop(_, _)
ConcatenateLoop(result, rest) ==
    IF rest = <<>> THEN result ELSE ConcatenateLoop(Plus(result, Head(rest)), Tail(rest))

\* AudioProcessor.concatenate(segments)
Concatenate(segs) ==
    IF segs = <<>> THEN EmptySegment ELSE ConcatenateLoop(Head(segs), Tail(segs))

\* A mutant of the loop of insert_silence_between: the silence follows every segment.
RECURSIVE SilenceLoopTrailing(_, _, _)
SilenceLoopTrailing(result, silence, rest) ==
    IF rest = <<>> THEN Plus(result, silence)
    ELSE SilenceLoopTrailing(Plus(result, Plus(silence, Head(rest))), silence, Tail(rest))

\* Lines 91-92: for segment in segments[1:]: result += silence + segment
RECURSIVE SilenceLoop(_, _, _)
SilenceLoop(result, silence, rest) ==
    IF rest = <<>> THEN result
    ELSE SilenceLoop(Plus(result, Plus(silence, Head(rest))), silence, Tail(rest))

\* AudioProcessor.insert_silence_between(segments, silence_ms)
InsertSilenceBetween(segs, ms) ==
    IF segs = <<>> THEN EmptySegment
    ELSE SilenceLoop(Head(segs), Silent(ms), Tail(segs))

\* concatenate(segments) is called.
CallConcatenate ==
    /\ ~concatenated.called
    /\ concatenated' = Returned(Concatenate(audio_segments))
    /\ UNCHANGED <<audio_segments, silence_ms, combined, tbVars, notAudio>>

\* insert_silence_between(segments, silence_ms) is called.
CallInsertSilenceBetween ==
    /\ ~combined.called
    /\ combined' = Returned(InsertSilenceBetween(audio_segments, silence_ms))
    /\ UNCHANGED <<audio_segments, silence_ms, concatenated, tbVars, notAudio>>

\* The frame counts of the segments handed in: none, a fraction of a millisecond more
\* than one, forty milliseconds exactly, and a fraction less than forty-one.
SegmentFrames == {0, 15, 441, 452}

\* Segments in one call.
MaxSegments == 3

\* The lists handed in: the segment at place i carries the source i.
SegmentLists ==
    UNION { { [i \in 1..n |-> Run(i, f[i])] : f \in [1..n -> SegmentFrames] }
            : n \in 0..MaxSegments }

\* The gaps asked for, a negative one among them.
Gaps == {-5, 0, 1, 39, 300}

\* No AudioProcessor call is running.
ProcessorIdle ==
    /\ audio_segments = <<>>
    /\ silence_ms = 0
    /\ concatenated = NotCalled
    /\ combined = NotCalled


(***************************************************************************)
(* TrackBuilder: audio/track_builder.py. A track that was mixed is a base  *)
(* buffer with the layers overlaid on it, in the order of the overlays.    *)
(***************************************************************************)
AudioClip(audio, start_ms, label) == [audio |-> audio, start_ms |-> start_ms, label |-> label]

\* The audio files on disk, by path: three voice clips, one of them shorter than two
\* milliseconds, and three pieces of music, one of them without a single frame.
AudioFiles ==
    [p \in {"a.wav", "b.wav", "tick.wav", "none.wav", "short.wav", "long.wav"} |->
        CASE p = "a.wav" -> Run(1, 441)
          [] p = "b.wav" -> Run(2, 452)
          [] p = "tick.wav" -> Run(4, 15)
          [] p = "none.wav" -> <<>>
          [] p = "short.wav" -> Run(8, 441)
          [] p = "long.wav" -> Run(9, 4410)]

\* AudioProcessor.load(file_path)
Load(path) == AudioFiles[path]

\* audio.frame_count(ms) as _parse_position takes it: int(ms * frame_rate / 1000).
PositionFrames(ms) == (ms * FrameRate) \div 1000

\* The first n frames of a buffer.
RECURSIVE TakeFrames(_, _)
TakeFrames(audio, n) ==
    IF n <= 0 \/ audio = <<>> THEN <<>>
    ELSE IF Head(audio).n <= n
    THEN <<Head(audio)>> \o TakeFrames(Tail(audio), n - Head(audio).n)
    ELSE << [src |-> Head(audio).src, n |-> n] >>

\* A mutant of line 127: the music is not cut to the voice track.
SliceToEnd(audio, ms) == audio

\* audio[:ms]: the slice ends at min(ms, len(audio)) and is padded with silence when
\* the data is a few frames short of it (not when there is no data at all).
SliceTo(audio, ms) ==
    LET want == PositionFrames(Min(ms, LenMs(audio)))
        data == TakeFrames(audio, want)
    IN  IF data = <<>> THEN <<>> ELSE data \o Run(SILENCE, want - FrameCount(data))

\* audio * n
RECURSIVE Times(_, _)
Times(audio, n) == IF n <= 0 THEN <<>> ELSE audio \o Times(audio, n - 1)

\* A track: the base and what was overlaid on it.
Track(base, layers, normalized) == [base |-> base, layers |-> layers, normalized |-> normalized]

\* AudioSegment.empty(), as build() returns it.
EmptyTrack == Track(<<>>, <<>>, FALSE)

\* len() of a track: overlay never grows the base.
TrackLenMs(t) == LenMs(t.base)

\* base.overlay(audio, position): the layer starts at the frame of `position` and is cut
\* at the end of the base.
Overlay(t, audio, position) ==
    LET at == Min(PositionFrames(position), FrameCount(t.base))
    IN  Track(t.base,
              Append(t.layers, [at |-> at, audio |-> TakeFrames(audio, FrameCount(t.base) - at)]),
              t.normalized)

\* A mutant of the sort of build(): clips that start together come out last one first.
RECURSIVE SortedByStartUnstable(_)
SortedByStartUnstable(cs) ==
    IF cs = <<>> THEN <<>>
    ELSE LET rest == SortedByStartUnstable(SubSeq(cs, 1, Len(cs) - 1))
             c == cs[Len(cs)]
             k == Cardinality({i \in 1..Len(rest) : rest[i].start_ms < c.start_ms})
         IN  SubSeq(rest, 1, k) \o <<c>> \o SubSeq(rest, k + 1, Len(rest))

\* sorted(clips, key=lambda c: c.start_ms): stable.
RECURSIVE SortedByStart(_)
SortedByStart(cs) ==
    IF cs = <<>> THEN <<>>
    ELSE LET rest == SortedByStart(SubSeq(cs, 1, Len(cs) - 1))
             c == cs[Len(cs)]
             k == Cardinality({i \in 1..Len(rest) : rest[i].start_ms <= c.start_ms})
         IN  SubSeq(rest, 1, k) \o <<c>> \o SubSeq(rest, k + 1, Len(rest))

\* A mutant of the maximum of build(): only the first clip counts.
MaxEndFirstOnly(cs) == cs[1].start_ms + LenMs(cs[1].audio)

\* Lines 89 and 162: max(clip.start_ms + len(clip.audio) for clip in self.clips)
MaxEnd(cs) ==
    LET ends == {cs[i].start_ms + LenMs(cs[i].audio) : i \in 1..Len(cs)}
    IN  CHOOSE e \in ends : \A x \in ends : x <= e

\* Lines 92-93: the clips are overlaid in the order given.
RECURSIVE OverlayAll(_, _)
OverlayAll(t, cs) ==
    IF cs = <<>> THEN t
    ELSE OverlayAll(Overlay(t, Head(cs).audio, Head(cs).start_ms), Tail(cs))

\* TrackBuilder.build(normalize)
Build(cs, normalize) ==
    IF cs = <<>> THEN EmptyTrack
    ELSE LET t == OverlayAll(Track(Silent(MaxEnd(cs)), <<>>, FALSE), SortedByStart(cs))
         IN  Track(t.base, t.layers, normalize)

\* A mutant of line 92: the clips are sorted in place.
ClipsAfterBuildSorted(cs) == SortedByStart(cs)

\* What build() leaves in self.clips: sorted() copies, the list is untouched.
ClipsAfterBuild(cs) == cs

\* TrackBuilder.build_with_bgm(bgm_path): the outcome. The gain and the fades of lines
\* 129-131 change samples, not the number of frames.
BuildWithBgm(cs, bgm_path) ==
    LET voice_track == Build(cs, TRUE)
        track_duration == TrackLenMs(voice_track)
        bgm == Load(bgm_path)
    IN  IF LenMs(bgm) < track_duration /\ LenMs(bgm) = 0
        THEN [raised |-> TRUE, audio |-> EmptyTrack]     \* ZeroDivisionError, line 124
        ELSE LET looped == IF LenMs(bgm) < track_duration
                           THEN Times(bgm, (track_duration \div LenMs(bgm)) + 1)
                           ELSE bgm
                 cut == SliceTo(looped, track_duration)
             IN  [raised |-> FALSE,
                  audio |-> Track(cut, <<[at |-> 0, audio |-> voice_track]>>, FALSE)]

\* TrackBuilder.get_duration_ms()
GetDurationMs(cs) == IF cs = <<>> THEN 0 ELSE MaxEnd(cs)

\* A mutant of line 73: the gap is left out of the step.
RECURSIVE AddSequentialLoopNoGap(_, _, _, _)
AddSequentialLoopNoGap(cs, audio_files, gap_ms, current_position) ==
    IF audio_files = <<>> THEN cs
    ELSE LET audio == Load(Head(audio_files))
         IN  AddSequentialLoopNoGap(
                 Append(cs, AudioClip(audio, current_position, Head(audio_files))),
                 Tail(audio_files), gap_ms, current_position + LenMs(audio))

\* Lines 66-73: the files are placed one after the other.
RECURSIVE AddSequentialLoop(_, _, _, _)
AddSequentialLoop(cs, audio_files, gap_ms, current_position) ==
    IF audio_files = <<>> THEN cs
    ELSE LET audio == Load(Head(audio_files))
         IN  AddSequentialLoop(Append(cs, AudioClip(audio, current_position, Head(audio_files))),
                               Tail(audio_files), gap_ms,
                               current_position + LenMs(audio) + gap_ms)

\* Calls on one builder.
MaxBuilderOps == 3

MaxItems == 3

\* Speakers in one script.
MaxSpeakers == 9

\* A call in the history: what it returned (a track, for the calls that build one) and
\* the length in milliseconds it returned or its track has.
Logged(op, raised, ret, ms) ==
    Append(tbLog, [op |-> op, raised |-> raised, ret |-> ret, ms |-> ms])

BuilderCall ==
    /\ Len(tbLog) < MaxBuilderOps
    /\ UNCHANGED <<apVars, notAudio>>

\* add_clip(audio, start_ms, label) with an AudioSegment.
AddClip(audio, start_ms, label) ==
    /\ BuilderCall
    /\ clips' = Append(clips, AudioClip(audio, start_ms, label))
    /\ tbLog' = Logged("add_clip", FALSE, EmptyTrack, 0)

\* add_sequential(audio_files, gap_ms, start_ms)
AddSequential(audio_files, gap_ms, start_ms) ==
    /\ BuilderCall
    /\ clips' = AddSequentialLoop(clips, audio_files, gap_ms, start_ms)
    /\ tbLog' = Append(tbLog, [op |-> "add_sequential", raised |-> FALSE, ret |-> EmptyTrack,
                               ms |-> 0, audio_files |-> audio_files, gap_ms |-> gap_ms,
                               start_ms |-> start_ms])

\* build(normalize)
CallBuild(normalize) ==
    /\ BuilderCall
    /\ clips' = ClipsAfterBuild(clips)
    /\ tbLog' = Logged("build", FALSE, Build(clips, normalize), TrackLenMs(Build(clips, normalize)))

\* build_with_bgm(bgm_path)
CallBuildWithBgm(bgm_path) ==
    /\ BuilderCall
    /\ clips' = ClipsAfterBuild(clips)
    /\ LET r == BuildWithBgm(clips, bgm_path)
       IN  tbLog' = Logged("build_with_bgm", r.raised, r.audio, TrackLenMs(r.audio))

\* save(output_path, format, normalize): the track built is the one written.
CallSave(normalize) ==
    /\ BuilderCall
    /\ clips' = ClipsAfterBuild(clips)
    /\ tbLog' = Logged("save", FALSE, Build(clips, normalize), TrackLenMs(Build(clips, normalize)))

\* get_duration_ms()
CallGetDurationMs ==
    /\ BuilderCall
    /\ clips' = clips
    /\ tbLog' = Logged("get_duration_ms", FALSE, EmptyTrack, GetDurationMs(clips))

\* clear()
CallClear ==
    /\ BuilderCall
    /\ clips' = <<>>
    /\ tbLog' = Logged("clear", FALSE, EmptyTrack, 0)

\* The clips handed to add_clip and where they start.
ClipAudios == { <<>>, Run(1, 441), Run(2, 452) }

ClipStarts == {0, 40}

\* TrackBuilder(): no clip.
BuilderIdle ==
    /\ clips = <<>>
    /\ tbLog = <<>>

\* No audio call is running.
AudioIdle == ProcessorIdle /\ BuilderIdle

(***************************************************************************)
(* The default voices of the Gemini pipelines: gemini_dialogue.main,       *)
(* app.generate_audio and GeminiTTS.synthesize_dialogue each hold a copy   *)
(* of the loop that gives the sorted speakers a voice.                     *)
(***************************************************************************)
Places == {"main", "generate_audio", "synthesize_dialogue"}

\* female_voices and male_voices as each place writes them.
FemaleVoices(place) == <<"Aoede", "Kore", "Leda", "Zephyr">>

MaleVoices(place) ==
    IF place = "synthesize_dialogue" THEN <<"Puck", "Charon", "Orus", "Fenrir">>
    ELSE <<"Charon", "Puck", "Orus", "Fenrir">>

FemaleStyle == "as an expressive young woman speaking Japanese"

MaleStyle == "as a calm knowledgeable expert speaking Japanese"

NoStyle == "None"

\* A mutant of the index: i % len(pool) in place of i // 2 % len(pool).
VoiceAtNoHalving(place, i) ==
    IF i % 2 = 0 THEN FemaleVoices(place)[(i % Len(FemaleVoices(place))) + 1]
    ELSE MaleVoices(place)[(i % Len(MaleVoices(place))) + 1]

\* The voice of the speaker at enumerate's index i.
VoiceAt(place, i) ==
    IF i % 2 = 0 THEN FemaleVoices(place)[(((i \div 2) % Len(FemaleVoices(place)))) + 1]
    ELSE MaleVoices(place)[(((i \div 2) % Len(MaleVoices(place)))) + 1]

\* The style of the speaker at index i; synthesize_dialogue sets none.
StyleAt(place, i) ==
    IF place = "synthesize_dialogue" THEN NoStyle
    ELSE IF i % 2 = 0 THEN FemaleStyle ELSE MaleStyle

\* One iteration of `for i, speaker in enumerate(sorted(speakers))` at a place.
DefaultVoiceStep(place) ==
    LET i == Cardinality(DOMAIN default_voices[place])
        order == Sorted(dialogue_speakers)
    IN  /\ i < Len(order)
        /\ default_voices' =
              [default_voices EXCEPT ![place] = DictSet(@, order[i + 1], VoiceAt(place, i))]
        /\ default_styles' =
              [default_styles EXCEPT ![place] = DictSet(@, order[i + 1], StyleAt(place, i))]
        /\ UNCHANGED <<dialogue_speakers, ownPipeVars, notPipe>>

\* The names of the speakers of a script, in the order list(set(...)) yields them.
SpeakerNames ==
    << <<35441, 32773, 51>>, <<35441, 32773, 49, 48>>, <<35441, 32773, 49>>, <<65>>, <<35441, 32773, 55>>, <<35441, 32773, 50>>, <<35441, 32773, 53>>,
       <<35441, 32773, 57>>, <<35441, 32773, 52>>, <<35441, 32773, 56>>, <<35441, 32773, 54>> >>

\* No default voice is being assigned.
VoicesIdle ==
    /\ dialogue_speakers = <<>>
    /\ default_voices = [place \in Places |-> <<>>]
    /\ default_styles = [place \in Places |-> <<>>]

(***************************************************************************)
(* The pipelines. Audio data is the sequence of the items it holds, 0 for  *)
(* a pause; a file is a path <<kind, k>> on `disk`.                        *)
(***************************************************************************)
PAUSE == 0

\* The per-segment temporary file of item k, the files of generate_audio, the
\* intermediate WAV of GeminiTTS.synthesize, and output_path.
TempSegment(k) == <<"segment", k>>

CombinedWav == <<"combined.wav", 0>>

CombinedMp3 == <<"output.mp3", 0>>

WavPath == <<"with_suffix.wav", 0>>

OutputPath == <<"output_path", 0>>

\* The file at path holds data; the file at path is removed.
WriteFile(d, path, data) ==
    [q \in (DOMAIN d) \cup {path} |-> IF q = path THEN data ELSE d[q]]

RemoveFiles(d, paths) == [q \in (DOMAIN d) \ paths |-> d[q]]

\* How a synthesis call can end: audio is returned and saved; the call raises; audio
\* is returned and writing the file raises after the file was created.
GatewayOutcomes == {"ok", "fail", "write_fails"}

Nothing == [format |-> "none", data |-> <<>>]

\* A mutant of the except clause: the loop ends at the first failure.
AfterFailureBreak(i, n) == n

\* Where the loop goes after a failure that was caught: `continue`, the next item.
AfterFailure(i, n) == i + 1

\* The body of the loop over the segments in GeminiTTS.synthesize_dialogue (lines
\* 138-174) and app.generate_audio (lines 166-205): the call, the file and the list
\* are inside one try; the except reports once and goes on.
TrySegment ==
    LET k == item + 1
    IN  /\ attempts' = Append(attempts, k)
        /\ CASE gateway[k] = "ok" ->
                  /\ disk' = WriteFile(disk, TempSegment(k), <<k>>)
                  /\ temp_files' = Append(temp_files, TempSegment(k))
                  /\ reports' = reports
                  /\ item' = item + 1
             [] gateway[k] = "fail" ->
                  /\ reports' = Append(reports, k)
                  /\ item' = AfterFailure(item, num_items)
                  /\ UNCHANGED <<disk, temp_files>>
             [] gateway[k] = "write_fails" ->
                  /\ disk' = WriteFile(disk, TempSegment(k), <<>>)
                  /\ reports' = Append(reports, k)
                  /\ item' = AfterFailure(item, num_items)
                  /\ UNCHANGED temp_files

\* The data of the files of a list, a pause after each one (gemini_tts.py:210-212,
\* app.py:128-131).
RECURSIVE JoinTrailing(_, _)
JoinTrailing(d, files) ==
    IF files = <<>> THEN <<>>
    ELSE d[Head(files)] \o <<PAUSE>> \o JoinTrailing(d, Tail(files))

PipeFrame ==
    UNCHANGED <<run, num_items, gateway, encoder, combining, output_suffix, document,
                voiceVars, notPipe>>

\* ---- GeminiTTS.synthesize_dialogue, called directly or by gemini_dialogue.main
InSynthesizeDialogue == run \in {"synthesize_dialogue", "main"} /\ outcome = "running"

\* Lines 138-174.
SdSegment ==
    /\ InSynthesizeDialogue /\ ppc = "loop" /\ item < num_items
    /\ TrySegment
    /\ UNCHANGED <<ppc, outcome, emitted>>
    /\ PipeFrame

\* _combine_audio_files raises when a file cannot be read, and when the export to MP3
\* cannot run the encoder.
CombineRaises == combining = "raises" \/ (output_suffix = ".mp3" /\ encoder # "ok")

\* Lines 176-178 and, with no file to combine, the return of line 185.
SdCombine ==
    /\ InSynthesizeDialogue /\ ppc = "loop" /\ item = num_items
    /\ IF temp_files = <<>>
       THEN /\ outcome' = "returned"
            /\ ppc' = "done"
            /\ emitted' = Nothing
            /\ disk' = disk
       ELSE IF CombineRaises
       THEN /\ outcome' = "raised"
            /\ ppc' = "done"
            /\ UNCHANGED <<emitted, disk>>
       ELSE /\ disk' = WriteFile(disk, OutputPath, JoinTrailing(disk, temp_files))
            /\ ppc' = "cleanup"
            /\ UNCHANGED <<outcome, emitted>>
    /\ UNCHANGED <<item, temp_files, attempts, reports>>
    /\ PipeFrame

\* Lines 180-185: the files of temp_files are removed and output_path is returned.
SdCleanup ==
    /\ InSynthesizeDialogue /\ ppc = "cleanup"
    /\ disk' = RemoveFiles(disk, Range(temp_files))
    /\ outcome' = "returned"
    /\ ppc' = "done"
    /\ emitted' = [format |-> output_suffix, data |-> disk[OutputPath]]
    /\ UNCHANGED <<item, temp_files, attempts, reports>>
    /\ PipeFrame

\* ---- app.generate_audio, called directly or by the generate button
InGenerateAudio == run \in {"generate_audio", "button"} /\ outcome = "running"

\* Lines 166-205.
GaSegment ==
    /\ InGenerateAudio /\ ppc = "loop" /\ item < num_items
    /\ TrySegment
    /\ UNCHANGED <<ppc, outcome, emitted>>
    /\ PipeFrame

\* Lines 208-210, combine_wav_files: nothing is written for an empty list.
GaCombine ==
    /\ InGenerateAudio /\ ppc = "loop" /\ item = num_items
    /\ IF temp_files = <<>>
       THEN /\ ppc' = "convert"
            /\ UNCHANGED <<disk, outcome>>
       ELSE IF combining = "raises"
       THEN /\ outcome' = "raised"
            /\ ppc' = "done"
            /\ disk' = disk
       ELSE /\ disk' = WriteFile(disk, CombinedWav, JoinTrailing(disk, temp_files))
            /\ ppc' = "convert"
            /\ outcome' = outcome
    /\ UNCHANGED <<item, temp_files, attempts, reports, emitted>>
    /\ PipeFrame

\* wav_to_mp3 (lines 134-144): True when ffmpeg ran and exited with 0; any exception,
\* ffmpeg missing or failing, gives False.
WavToMp3(d) ==
    IF encoder = "ok" /\ CombinedWav \in DOMAIN d THEN "converted" ELSE "failed"

\* Lines 213-222: the MP3 is read, or the WAV when the conversion failed.
GaConvert ==
    /\ InGenerateAudio /\ ppc = "convert"
    /\ IF WavToMp3(disk) = "converted"
       THEN /\ disk' = WriteFile(disk, CombinedMp3, disk[CombinedWav])
            /\ emitted' = [format |-> ".mp3", data |-> disk[CombinedWav]]
            /\ ppc' = "cleanup"
            /\ outcome' = outcome
       ELSE IF CombinedWav \in DOMAIN disk
       THEN /\ emitted' = [format |-> ".wav", data |-> disk[CombinedWav]]
            /\ ppc' = "cleanup"
            /\ UNCHANGED <<disk, outcome>>
       ELSE /\ outcome' = "raised"      \* open(combined_wav): FileNotFoundError
            /\ ppc' = "done"
            /\ UNCHANGED <<disk, emitted>>
    /\ UNCHANGED <<item, temp_files, attempts, reports>>
    /\ PipeFrame

\* Lines 224-241: the duration is read, the files are removed, the buffer is returned.
GaCleanup ==
    /\ InGenerateAudio /\ ppc = "cleanup"
    /\ disk' = RemoveFiles(disk, Range(temp_files) \cup {CombinedWav, CombinedMp3})
    /\ outcome' = "returned"
    /\ ppc' = "done"
    /\ UNCHANGED <<item, temp_files, attempts, reports, emitted>>
    /\ PipeFrame

\* ---- VoiceAgent.generate_dialogue, generate_narration, build_audio_track
AgentRuns == {"generate_dialogue", "generate_narration", "build_audio_track"}

InAgent == run \in AgentRuns /\ outcome = "running"

\* The data of the files of a list, a pause between two of them
\* (AudioProcessor.insert_silence_between; the 300 ms step of build_audio_track).
RECURSIVE JoinBetween(_, _)
JoinBetween(d, files) ==
    IF files = <<>> THEN <<>>
    ELSE IF Len(files) = 1 THEN d[Head(files)]
    ELSE d[Head(files)] \o <<PAUSE>> \o JoinBetween(d, Tail(files))

\* The files of the TemporaryDirectory, removed when the with block is left.
TempDirFiles(d) == {q \in DOMAIN d : q[1] = "segment"}

\* The body of the loop (agent.py:119-131, 172-182, 231-245): tts.synthesize writes
\* the MP3 of the line, processor.load decodes it with the external decoder. Nothing
\* catches an exception: the with block is left and the exception reaches the caller.
AgSegment ==
    /\ InAgent /\ ppc = "loop" /\ item < num_items
    /\ LET k == item + 1
       IN  /\ attempts' = Append(attempts, k)
           /\ IF gateway[k] = "ok" /\ encoder = "ok"
              THEN /\ disk' = WriteFile(disk, TempSegment(k), <<k>>)
                   /\ temp_files' = Append(temp_files, TempSegment(k))
                   /\ item' = item + 1
                   /\ UNCHANGED <<ppc, outcome>>
              ELSE /\ disk' = RemoveFiles(disk, TempDirFiles(disk))
                   /\ outcome' = "raised"
                   /\ ppc' = "done"
                   /\ UNCHANGED <<temp_files, item>>
    /\ UNCHANGED <<reports, emitted>>
    /\ PipeFrame

\* After the loop (agent.py:133-136, 193-198, 247-253): the audios are joined and
\* saved as MP3 at output_path, whatever their number; the with block is left.
AgAssemble ==
    /\ InAgent /\ ppc = "loop" /\ item = num_items
    /\ IF encoder = "ok"
       THEN /\ disk' = RemoveFiles(WriteFile(disk, OutputPath, JoinBetween(disk, temp_files)),
                                   TempDirFiles(disk))
            /\ emitted' = [format |-> ".mp3", data |-> JoinBetween(disk, temp_files)]
            /\ outcome' = "returned"
       ELSE /\ disk' = RemoveFiles(disk, TempDirFiles(disk))
            /\ outcome' = "raised"
            /\ emitted' = emitted
    /\ ppc' = "done"
    /\ UNCHANGED <<item, temp_files, attempts, reports>>
    /\ PipeFrame

\* ---- GeminiTTS.synthesize, one text
InSynthesize == run = "synthesize" /\ outcome = "running"

\* Lines 67-83: the request; an exception reaches the caller.
SynRequest ==
    /\ InSynthesize /\ ppc = "loop" /\ item < num_items
    /\ attempts' = Append(attempts, item + 1)
    /\ item' = item + 1
    /\ IF gateway[item + 1] = "fail"
       THEN outcome' = "raised" /\ ppc' = "done"
       ELSE outcome' = outcome /\ ppc' = "save"
    /\ UNCHANGED <<temp_files, disk, reports, emitted>>
    /\ PipeFrame

\* _convert_to_mp3 (lines 195-201): subprocess.run without check. A missing ffmpeg
\* raises FileNotFoundError; an ffmpeg that exits with an error is not noticed.
ConvertToMp3(d) ==
    CASE encoder = "ok"     -> [raised |-> FALSE, disk |-> WriteFile(d, OutputPath, d[WavPath])]
      [] encoder = "absent" -> [raised |-> TRUE, disk |-> d]
      [] encoder = "fails"  -> [raised |-> FALSE, disk |-> d]

\* What a caller finds at output_path.
AtOutputPath(d) ==
    IF OutputPath \in DOMAIN d THEN [format |-> output_suffix, data |-> d[OutputPath]]
    ELSE Nothing

\* Lines 85-95.
SynSave ==
    /\ InSynthesize /\ ppc = "save"
    /\ IF gateway[item] = "write_fails"
       THEN /\ outcome' = "raised"
            /\ disk' = WriteFile(disk, IF output_suffix = ".mp3" THEN WavPath ELSE OutputPath,
                                 <<>>)
            /\ emitted' = emitted
       ELSE IF output_suffix = ".mp3"
       THEN LET saved == WriteFile(disk, WavPath, <<item>>)
                conv == ConvertToMp3(saved)
            IN  IF conv.raised
                THEN /\ outcome' = "raised"
                     /\ disk' = conv.disk
                     /\ emitted' = emitted
                ELSE /\ outcome' = "returned"
                     /\ disk' = RemoveFiles(conv.disk, {WavPath})
                     /\ emitted' = AtOutputPath(conv.disk)
       ELSE /\ outcome' = "returned"
            /\ disk' = WriteFile(disk, OutputPath, <<item>>)
            /\ emitted' = AtOutputPath(disk')
    /\ ppc' = "done"
    /\ UNCHANGED <<item, temp_files, attempts, reports>>
    /\ PipeFrame

\* ---- read_word_file and VoiceAgent.convert_document
DocumentRuns == {"read_word_file", "convert_document"}

\* An input document: the suffix of its path, whether the path exists, whether its
\* bytes decode as UTF-8 and whether they are a Word document.
Document(suffix, exists, utf8, docx) ==
    [suffix |-> suffix, exists |-> exists, utf8 |-> utf8, docx |-> docx]

NoDocument == Document(<<>>, FALSE, FALSE, FALSE)

\* The extensions the `convert` command names (main.py:28), and others.
RecognizedSuffixes == {<<46, 100, 111, 99, 120>>, <<46, 116, 120, 116>>, <<46, 109, 100>>}

Suffixes == RecognizedSuffixes \cup {<<46, 68, 79, 67, 88>>, <<46, 112, 100, 102>>}

Documents ==
    {doc \in {Document(x, e, u, d) :
                  x \in Suffixes, e \in BOOLEAN, u \in BOOLEAN, d \in BOOLEAN} :
        /\ ~(doc.utf8 /\ doc.docx)                 \* a Word file is a zip archive
        /\ (doc.utf8 \/ doc.docx) => doc.exists}

\* str.lower() on the letters A-Z.
Lower(s) == [k \in 1..Len(s) |-> IF s[k] \in 65..90 THEN s[k] + 32 ELSE s[k]]

\* read_word_file (word.py:21-47): "text", or the exception raised.
ReadWordFile(doc) ==
    IF ~doc.exists THEN "FileNotFoundError"
    ELSE IF Lower(doc.suffix) # <<46, 100, 111, 99, 120>> THEN "ValueError"
    ELSE IF ~doc.docx THEN "PackageNotFoundError"
    ELSE "text"

\* Path.read_text(encoding="utf-8") (agent.py:54).
ReadText(doc) ==
    IF ~doc.exists THEN "FileNotFoundError"
    ELSE IF ~doc.utf8 THEN "UnicodeDecodeError"
    ELSE "text"

\* The dispatch of convert_document (agent.py:51-54): a Word file by its suffix,
\* every other path is read as text.
DispatchRead(doc) ==
    IF Lower(doc.suffix) = <<46, 100, 111, 99, 120>> THEN ReadWordFile(doc) ELSE ReadText(doc)

DocFrame == UNCHANGED <<item, temp_files, reports, emitted>> /\ PipeFrame

\* read_word_file called on a path.
CallReadWordFile ==
    /\ run = "read_word_file" /\ outcome = "running" /\ ppc = "read"
    /\ outcome' = (IF ReadWordFile(document) = "text" THEN "returned" ELSE "raised")
    /\ ppc' = "done"
    /\ UNCHANGED <<disk, attempts>>
    /\ DocFrame

\* agent.py:49-54.
CdRead ==
    /\ run = "convert_document" /\ outcome = "running" /\ ppc = "read"
    /\ IF DispatchRead(document) = "text"
       THEN outcome' = outcome /\ ppc' = "synthesize"
       ELSE outcome' = "raised" /\ ppc' = "done"
    /\ UNCHANGED <<disk, attempts>>
    /\ DocFrame

\* agent.py:56-62: GoogleTTS.synthesize writes the audio at output_path.
CdSynthesize ==
    /\ run = "convert_document" /\ outcome = "running" /\ ppc = "synthesize"
    /\ attempts' = Append(attempts, 1)
    /\ IF gateway[1] = "ok"
       THEN outcome' = "returned" /\ disk' = WriteFile(disk, OutputPath, <<1>>)
       ELSE outcome' = "raised" /\ disk' = disk
    /\ ppc' = "done"
    /\ DocFrame

\* ---- the entry points that parse before they synthesize
\* gemini_dialogue.main (lines 52-59) and the generate button (app.py:277-281): with
\* no segment the error is shown and nothing else is done.
EntryParse ==
    /\ run \in {"main", "button"} /\ outcome = "running" /\ ppc = "parse"
    /\ IF num_items = 0
       THEN outcome' = "error" /\ ppc' = "done"
       ELSE outcome' = outcome /\ ppc' = "loop"
    /\ UNCHANGED <<item, temp_files, disk, attempts, reports, emitted>>
    /\ PipeFrame

Runs ==
    {"synthesize_dialogue", "main", "generate_audio", "button", "synthesize"}
        \cup AgentRuns \cup DocumentRuns

EmptyDisk == [q \in {} |-> <<>>]

\* A run that has not started: ppc is the first step of the run.
PipelineStart ==
    /\ ppc = (IF run \in {"main", "button"} THEN "parse"
              ELSE IF run \in DocumentRuns THEN "read" ELSE "loop")
    /\ item = 0
    /\ temp_files = <<>>
    /\ disk = EmptyDisk
    /\ attempts = <<>>
    /\ reports = <<>>
    /\ outcome = "running"
    /\ emitted = Nothing

\* No pipeline is running.
PipelineIdle ==
    /\ run = "synthesize_dialogue"
    /\ num_items = 0
    /\ gateway = <<>>
    /\ encoder = "ok"
    /\ combining = "ok"
    /\ output_suffix = ".mp3"
    /\ document = NoDocument
    /\ PipelineStart
    /\ VoicesIdle

\* No reader is running.
ParserIdleReaders ==
    /\ fs = <<>>
    /\ arg = [kind |-> "str", value |-> <<>>]
    /\ fn = "none"
    /\ pc = "idle"
    /\ content = <<>>
    /\ pos = 0
    /\ script = <<>>
    /\ segments = <<>>
    /\ lines = <<>>
    /\ speakers = {}
    /\ matchLog = <<>>
    /\ sections = <<>>
    /\ current_section = <<>>
    /\ current_text = <<>>

ParserIdle == ParserIdleReaders /\ AudioIdle /\ PipelineIdle

\* The managers, untouched, for the specifications of the other components.
ManagersIdle ==
    /\ InitVM
    /\ default_language = [m \in Managers |-> "ja-JP"]
    /\ AudioIdle
    /\ PipelineIdle

(***************************************************************************)
(* SPECIFICATIONS                                                          *)
(***************************************************************************)
(***************************************************************************)
(* SpecVM: one manager, every method, any interleaving.                    *)
(***************************************************************************)
InitOneManager ==
    /\ InitVM
    /\ ParserIdle
    /\ default_language \in [Managers -> Languages]
    /\ default_language[2] = "ja-JP"

NextVM ==
    \/ \E s \in Speakers, v \in ExplicitVoices : AssignVoice(1, s, v)
    \/ \E s \in Speakers : GetVoice(1, s)
    \/ \E S \in DialogueSets : AssignVoicesForDialogue(1, IterOrder(S))

SpecVM == InitOneManager /\ [][NextVM]_vars

(***************************************************************************)
(* SpecDet: two managers, each handed speaker sets in any iteration order. *)
(***************************************************************************)
DetSpeakers == { <<66>>, <<97>>, <<49, 48>> }

\* Every order in which a subset of DetSpeakers can iterate.
IterOrders ==
    {it \in UNION {[1..n -> DetSpeakers] : n \in 0..Cardinality(DetSpeakers)} :
        \A i, j \in 1..Len(it) : i # j => it[i] # it[j]}

InitTwoManagers ==
    /\ InitVM
    /\ ParserIdle
    /\ default_language \in [Managers -> Languages]

NextDet == \E m \in Managers, it \in IterOrders : AssignVoicesForDialogue(m, it)

SpecDet == InitTwoManagers /\ [][NextDet]_vars

(***************************************************************************)
(* SpecParse: parse_dialogue_script on every argument and file system.     *)
(***************************************************************************)
InitParse ==
    /\ ManagersIdle
    /\ fs \in FsChoices
    /\ arg \in DialogueArgs
    /\ fn = "parse_dialogue_script"
    /\ pc = "open"
    /\ content = arg.value
    /\ pos = 0
    /\ script = <<>>
    /\ segments = <<>>
    /\ lines = <<>>
    /\ speakers = {}
    /\ matchLog = <<>>
    /\ sections = <<>>
    /\ current_section = <<>>
    /\ current_text = <<>>

NextParse == PdsOpen \/ PdsLine \/ PdsReturn

SpecParse == InitParse /\ [][NextParse]_vars

(***************************************************************************)
(* SpecNarr: parse_narration_script on every argument and file system.     *)
(***************************************************************************)
InitNarr ==
    /\ ManagersIdle
    /\ fs \in FsChoices
    /\ arg \in NarrationArgs
    /\ fn = "parse_narration_script"
    /\ pc = "open"
    /\ content = arg.value
    /\ pos = 0
    /\ script = <<>>
    /\ segments = <<>>
    /\ lines = <<>>
    /\ speakers = {}
    /\ matchLog = <<>>
    /\ sections = <<>>
    /\ current_section = <<>>
    /\ current_text = <<>>

NextNarr == NarrOpen \/ NarrLine \/ NarrReturn

SpecNarr == InitNarr /\ [][NextNarr]_vars

(***************************************************************************)
(* SpecReaders: either reader of script_parser.py.                         *)
(***************************************************************************)
InitReaders == InitParse \/ InitNarr

NextReaders == NextParse \/ NextNarr

SpecReaders == InitReaders /\ [][NextReaders]_vars

(***************************************************************************)
(* SpecApp: app.parse_dialogue on every script of the dialects.            *)
(***************************************************************************)
InitApp ==
    /\ ManagersIdle
    /\ fs = <<>>
    /\ script \in Scripts
    /\ arg = [kind |-> "str", value |-> RenderScript(script)]
    /\ fn = "parse_dialogue"
    /\ pc = "rewrite"
    /\ content = arg.value
    /\ pos = 0
    /\ segments = <<>>
    /\ lines = <<>>
    /\ speakers = {}
    /\ matchLog = <<>>
    /\ sections = <<>>
    /\ current_section = <<>>
    /\ current_text = <<>>

NextApp == AppRewrite \/ AppFind

SpecApp == InitApp /\ [][NextApp]_vars

(***************************************************************************)
(* SpecAudio: the AudioProcessor on every list of segments and every gap.  *)
(***************************************************************************)
InitAudio ==
    /\ InitVM
    /\ default_language = [m \in Managers |-> "ja-JP"]
    /\ ParserIdleReaders
    /\ audio_segments \in SegmentLists
    /\ silence_ms \in Gaps
    /\ concatenated = NotCalled
    /\ combined = NotCalled
    /\ BuilderIdle
    /\ PipelineIdle

NextAudio == CallConcatenate \/ CallInsertSilenceBetween

SpecAudio == InitAudio /\ [][NextAudio]_vars

(***************************************************************************)
(* SpecBuilder: every sequence of calls on one TrackBuilder.               *)
(***************************************************************************)
InitBuilder ==
    /\ InitVM
    /\ default_language = [m \in Managers |-> "ja-JP"]
    /\ ParserIdleReaders
    /\ ProcessorIdle
    /\ BuilderIdle
    /\ PipelineIdle

NextBuilder ==
    \/ \E audio \in ClipAudios, start_ms \in ClipStarts : AddClip(audio, start_ms, "")
    \/ AddClip(Run(3, 15), 100, "late")
    \/ \E gap_ms \in {0, 300} : AddSequential(<<"a.wav", "b.wav">>, gap_ms, 0)
    \/ AddSequential(<<"tick.wav", "tick.wav">>, 0, 0)
    \/ AddSequential(<<"tick.wav", "a.wav">>, 39, 40)
    \/ \E normalize \in BOOLEAN : CallBuild(normalize)
    \/ \E bgm_path \in {"none.wav", "short.wav", "long.wav"} : CallBuildWithBgm(bgm_path)
    \/ CallSave(TRUE)
    \/ CallGetDurationMs
    \/ CallClear

SpecBuilder == InitBuilder /\ [][NextBuilder]_vars

\* The pipelines: the number of items parsed, how each synthesis call ends, the state
\* of the external encoder and of the combining step are the environment of a run.
InitPipeline ==
    /\ InitVM
    /\ default_language = [m \in Managers |-> "ja-JP"]
    /\ ParserIdleReaders
    /\ AudioIdle
    /\ run \in Runs
    /\ num_items \in (IF run \in {"synthesize", "convert_document"} THEN {1}
                      ELSE IF run = "read_word_file" THEN {0} ELSE 0..MaxItems)
    /\ gateway \in [1..num_items -> GatewayOutcomes]
    /\ encoder \in {"ok", "absent", "fails"}
    /\ combining \in {"ok", "raises"}
    /\ output_suffix \in {".mp3", ".wav"}
    /\ document \in (IF run \in DocumentRuns THEN Documents ELSE {NoDocument})
    /\ PipelineStart
    /\ VoicesIdle

NextPipeline ==
    \/ EntryParse
    \/ SdSegment
    \/ SdCombine
    \/ SdCleanup
    \/ GaSegment
    \/ GaCombine
    \/ GaConvert
    \/ GaCleanup
    \/ AgSegment
    \/ AgAssemble
    \/ SynRequest
    \/ SynSave
    \/ CallReadWordFile
    \/ CdRead
    \/ CdSynthesize

SpecPipeline == InitPipeline /\ [][NextPipeline]_vars

\* The default voices: a script of up to MaxSpeakers speakers, each place running its
\* loop over them.
InitVoices ==
    /\ InitVM
    /\ default_language = [m \in Managers |-> "ja-JP"]
    /\ ParserIdleReaders
    /\ AudioIdle
    /\ run = "synthesize_dialogue"
    /\ num_items = 0
    /\ gateway = <<>>
    /\ encoder = "ok"
    /\ combining = "ok"
    /\ output_suffix = ".mp3"
    /\ document = NoDocument
    /\ PipelineStart
    /\ dialogue_speakers \in {SubSeq(SpeakerNames, 1, n) : n \in 0..MaxSpeakers}
    /\ default_voices = [place \in Places |-> <<>>]
    /\ default_styles = [place \in Places |-> <<>>]

NextVoices == \E place \in Places : DefaultVoiceStep(place)

SpecVoices == InitVoices /\ [][NextVoices]_vars

\* gemini_dialogue.parse_dialogue on the scripts of the dialects.
InitGemini ==
    /\ ManagersIdle
    /\ fs = <<>>
    /\ script \in Scripts
    /\ arg = [kind |-> "str", value |-> RenderScript(script)]
    /\ fn = "gemini_dialogue.parse_dialogue"
    /\ pc = "patterns"
    /\ content = arg.value
    /\ pos = 0
    /\ segments = <<>>
    /\ lines = <<>>
    /\ speakers = {}
    /\ matchLog = <<>>
    /\ sections = <<>>
    /\ current_section = <<>>
    /\ current_text = <<>>

NextGemini == GdPattern \/ GdReturn

SpecGemini == InitGemini /\ [][NextGemini]_vars

(***************************************************************************)
(* CLAIMS                                                                  *)
(***************************************************************************)
(***************************************************************************)
(* Claims about the VoiceManager.                                          *)
(***************************************************************************)
\* The call that a step adds to manager m's history, if it adds one.
Called(m, ops) ==
    /\ Len(vmHist'[m]) = Len(vmHist[m]) + 1
    /\ Last(vmHist'[m]).op \in ops

\* 0-based rank of s in the lexicographic order of S.
Rank(s, S) == Cardinality({t \in S : LexLess(t, s)})

\* C1: no automatic assignment (get_voice, assign_voices_for_dialogue) changes the
\* voice of a speaker that is already in speaker_voices, however it was set.
C1_AutoAssignKeepsExisting ==
    [][\A m \in Managers :
          Called(m, {"get_voice", "assign_voices_for_dialogue"}) =>
              \A s \in DOMAIN speaker_voices[m] :
                  /\ s \in DOMAIN speaker_voices'[m]
                  /\ speaker_voices'[m][s] = speaker_voices[m][s]]_vars

\* C1 witness: an explicit voice, then a batch call over a superset that assigns
\* another speaker automatically and leaves the explicit voice in place.
C1_Witness ==
    /\ Len(vmHist[1]) = 2
    /\ vmHist[1][1].op = "assign_voice"
    /\ vmHist[1][2].op = "assign_voices_for_dialogue"
    /\ vmHist[1][1].speakers \subseteq vmHist[1][2].speakers
    /\ Len(autoLog[1]) >= 1
    /\ \E s \in vmHist[1][1].speakers :
          speaker_voices[1][s] = VoiceConfig("ja-JP-Standard-A", "ja-JP", 12, 2)

\* C2 (as claimed): the n-th automatic assignment of a manager, batch or
\* incremental, receives presets[n mod len(presets)], so two speakers share a preset
\* only once as many speakers as presets have been assigned.
C2_SharedCounter ==
    \A m \in Managers :
        LET presets == AvailableVoices(default_language[m])
        IN  (\A c \in 1..Len(vmHist[m]) :
                vmHist[m][c].op \in {"get_voice", "assign_voices_for_dialogue"}) =>
            /\ \A n \in 1..Len(autoLog[m]) :
                  autoLog[m][n].voice = presets[((n - 1) % Len(presets)) + 1]
            /\ Len(autoLog[m]) <= Len(presets) =>
                  \A n1, n2 \in 1..Len(autoLog[m]) :
                      autoLog[m][n1].speaker # autoLog[m][n2].speaker =>
                          autoLog[m][n1].voice # autoLog[m][n2].voice

\* C3: on a fresh manager, assign_voices_for_dialogue(S) gives the speaker of
\* sorted rank k the preset presets[k mod len(presets)], and maps nobody else.
C3_FreshBatchRoundRobin ==
    \A m \in Managers :
        (Len(vmHist[m]) = 1 /\ vmHist[m][1].op = "assign_voices_for_dialogue") =>
            LET S == vmHist[m][1].speakers
                presets == AvailableVoices(default_language[m])
            IN  /\ DOMAIN speaker_voices[m] = S
                /\ \A s \in S :
                      speaker_voices[m][s] = presets[(Rank(s, S) % Len(presets)) + 1]

\* C3 witness: six speakers on a fresh manager, the sixth in sorted order ("a")
\* back on the first preset.
C3_Witness ==
    /\ Len(vmHist[1]) = 1
    /\ vmHist[1][1].op = "assign_voices_for_dialogue"
    /\ vmHist[1][1].speakers = Speakers
    /\ speaker_voices[1][<<97>>] = AvailableVoices(default_language[1])[1]
    /\ speaker_voices[1][<<49, 48>>] = AvailableVoices(default_language[1])[1]

\* C4, first half: two fresh managers of the same language given the same set, in
\* whatever iteration order, hold the same mapping.
C4_SameSetSameMapping ==
    ( /\ Len(vmHist[1]) = 1
      /\ Len(vmHist[2]) = 1
      /\ vmHist[1][1].speakers = vmHist[2][1].speakers
      /\ default_language[1] = default_language[2] )
    => speaker_voices[1] = speaker_voices[2]

\* C4, second half: a second assign_voices_for_dialogue with the same set on the
\* same manager changes nothing.
C4_RepeatIsNoOp ==
    \A m \in Managers :
        ( /\ Called(m, {"assign_voices_for_dialogue"})
          /\ Len(vmHist[m]) >= 1
          /\ Last(vmHist[m]).op = "assign_voices_for_dialogue"
          /\ Last(vmHist[m]).speakers = Last(vmHist'[m]).speakers )
        => speaker_voices'[m] = speaker_voices[m]

\* C4: voice assignment is deterministic (both halves).
C4_Deterministic == [](C4_SameSetSameMapping) /\ [][C4_RepeatIsNoOp]_vars

\* C4 witness: the same three speakers reach two fresh managers in different
\* iteration orders and the mappings agree.
C4_Witness ==
    /\ Len(vmHist[1]) = 1
    /\ Len(vmHist[2]) = 1
    /\ vmHist[1][1].speakers = DetSpeakers
    /\ vmHist[2][1].speakers = DetSpeakers
    /\ vmHist[1][1].it # vmHist[2][1].it
    /\ default_language[1] = default_language[2]
    /\ speaker_voices[1] = speaker_voices[2]

(***************************************************************************)
(* Claims about the readers of script_parser.py.                           *)
(***************************************************************************)
\* The source text seen line by line, from the positions of its newlines alone.
NewlinesOf(t) == {k \in 1..Len(t) : t[k] = NL}

NumLinesOf(t) == Cardinality(NewlinesOf(t)) + 1

\* The position of the n-th newline of t (0 before the first line, Len(t) + 1 at the end).
NthNewline(t, n) ==
    IF n = 0 THEN 0
    ELSE IF n > Cardinality(NewlinesOf(t)) THEN Len(t) + 1
    ELSE CHOOSE p \in NewlinesOf(t) : Cardinality({q \in NewlinesOf(t) : q < p}) = n - 1

\* The n-th line of t, without its outer whitespace.
TrimmedLineOf(t, n) ==
    LET l == SubSeq(t, NthNewline(t, n - 1) + 1, NthNewline(t, n) - 1)
        K == {k \in 1..Len(l) : ~IsSpace(l[k])}
    IN  IF K = {} THEN <<>> ELSE SubSeq(l, MinOf(K), MaxOf(K))

Trimmed(s) == s = <<>> \/ (~IsSpace(s[1]) /\ ~IsSpace(s[Len(s)]))

\* s occurs in t as a contiguous piece.
OccursIn(s, t) == \E i \in 0..(Len(t) - Len(s)) : SubSeq(t, i + 1, i + Len(s)) = s

IsSuffix(s, t) == Len(s) <= Len(t) /\ SubSeq(t, Len(t) - Len(s) + 1, Len(t)) = s

PdsDone == fn = "parse_dialogue_script" /\ pc = "done"

\* C5: the returned DialogueScript has speakers == {l.speaker for l in lines}, every
\* stored line has a non-empty trimmed speaker and text, and a line that matched a
\* pattern with a blank speaker or text is dropped without trying the later patterns.
C5_ScriptWellFormed ==
    PdsDone =>
        /\ speakers = {lines[i].speaker : i \in 1..Len(lines)}
        /\ \A i \in 1..Len(lines) :
              /\ lines[i].speaker # <<>> /\ Trimmed(lines[i].speaker)
              /\ lines[i].text # <<>> /\ Trimmed(lines[i].text)
        /\ \A k \in 1..Len(matchLog) :
              /\ matchLog[k].pattern # 0 => matchLog[k].tried = matchLog[k].pattern
              /\ matchLog[k].stored <=>
                    \E i \in 1..Len(lines) : lines[i].line_number = matchLog[k].line_number

\* C5 witness: a script with a stored line and a line that matched the first pattern
\* with a blank speaker and was dropped.
C5_Witness ==
    /\ PdsDone
    /\ Len(lines) >= 1
    /\ \E k \in 1..Len(matchLog) : matchLog[k].pattern = 1 /\ ~matchLog[k].stored

\* C6: the lines come in document order, at most one per input line, and line_number
\* is the 1-based position of the source line among all lines of the input.
C6_LineNumbers ==
    PdsDone =>
        /\ \A i \in 1..Len(lines) :
              /\ lines[i].line_number \in 1..NumLinesOf(content)
              /\ LET src == TrimmedLineOf(content, lines[i].line_number)
                 IN  /\ IsSuffix(lines[i].text, src)
                     /\ OccursIn(lines[i].speaker,
                                 SubSeq(src, 1, Len(src) - Len(lines[i].text)))
        /\ \A i, j \in 1..Len(lines) :
              i < j => lines[i].line_number < lines[j].line_number

\* C6 witness: two stored lines, numbered 1 and 3, around a skipped line.
C6_Witness ==
    /\ PdsDone
    /\ arg.kind = "str"
    /\ fs = <<>>
    /\ Len(lines) = 2
    /\ lines[1].line_number = 1
    /\ lines[2].line_number = 3
    /\ lines[1].text # lines[2].text

\* C7 (as claimed): parsing the empty string raises nothing; parse_dialogue_script("")
\* returns no lines and no speakers, parse_narration_script("") returns no sections.
C7_EmptyStringParses ==
    (arg = [kind |-> "str", value |-> <<>>]) =>
        /\ pc # "raised"
        /\ (pc = "done" /\ fn = "parse_dialogue_script") => lines = <<>> /\ speakers = {}
        /\ (pc = "done" /\ fn = "parse_narration_script") => sections = <<>>

\* The kind of the n-th line of t for parse_narration_script.
IsHeading(t, n) ==
    LET l == TrimmedLineOf(t, n) IN Len(l) >= 2 /\ l[1] = HASH /\ l[2] = HASH

IsBody(t, n) ==
    LET l == TrimmedLineOf(t, n) IN l # <<>> /\ l[1] # HASH

\* The last heading line before line n, 0 when there is none.
HeadingBefore(t, n) ==
    LET H == {h \in 1..(n - 1) : IsHeading(t, h)} IN IF H = {} THEN 0 ELSE MaxOf(H)

\* The body lines that open a run: no body line earlier under the same heading.
RunStarts(t) ==
    {n \in 1..NumLinesOf(t) :
        /\ IsBody(t, n)
        /\ \A j \in 1..(n - 1) : IsBody(t, j) => HeadingBefore(t, j) # HeadingBefore(t, n)}

\* The title of the run opened by line n: the heading's text, its leading #s and outer
\* whitespace removed, or "Introduction".
TitleOfRun(t, n) ==
    IF HeadingBefore(t, n) = 0 THEN Introduction
    ELSE LET l == TrimmedLineOf(t, HeadingBefore(t, n))
             F == {k \in 1..Len(l) : l[k] # HASH}
         IN  IF F = {} THEN <<>>
             ELSE LET rest == SubSeq(l, MinOf(F), Len(l))
                      R == {k \in 1..Len(rest) : ~IsSpace(rest[k])}
                  IN  IF R = {} THEN <<>> ELSE SubSeq(rest, MinOf(R), MaxOf(R))

\* The body of the run opened by line n: its body lines, trimmed, joined by newlines.
BodyOfRun(t, n) ==
    LET idx == SelectSeq([j \in 1..NumLinesOf(t) |-> j],
                         LAMBDA j : IsBody(t, j) /\ HeadingBefore(t, j) = HeadingBefore(t, n))
    IN  Join([k \in 1..Len(idx) |-> TrimmedLineOf(t, idx[k])], <<NL>>)

NarrDone == fn = "parse_narration_script" /\ pc = "done"

\* C10: parse_narration_script returns, in document order, one (title, body) pair per
\* maximal run of body lines between ##-or-deeper headings; single-# lines give
\* neither title nor body, and a heading with no body line gives no section.
C10_NarrationSections ==
    NarrDone =>
        /\ Len(sections) = Cardinality(RunStarts(content))
        /\ \A n \in RunStarts(content) :
              LET k == Cardinality({j \in RunStarts(content) : j <= n})
              IN  sections[k] = <<TitleOfRun(content, n), BodyOfRun(content, n)>>

\* C10 witness: text before any heading and a heading with no body line: two sections,
\* the first titled "Introduction".
C10_Witness ==
    /\ NarrDone
    /\ arg.kind = "str"
    /\ fs = <<>>
    /\ Len(sections) = 2
    /\ sections[1][1] = Introduction
    /\ \E n \in 1..NumLinesOf(content) :
          IsHeading(content, n) /\ n + 1 <= NumLinesOf(content) /\ IsHeading(content, n + 1)
\* ---- app.parse_dialogue -------------------------------------------------
AppDone == fn = "parse_dialogue" /\ pc = "done"

\* The rewrite rules have all run and the pattern has not been matched yet.
AppRewritten == fn = "parse_dialogue" /\ pc = "rewrite" /\ pos = NumStages

\* The script is written entirely in canonical form.
IsCanonical(sc) == RenderScript(sc) = CanonicalScript(sc)

\* C8: a script written in any mix of the dialects `Speaker 1:`, `話者1:`, `（話者1）`,
\* `(話者1)`, `[話者1]:`, with full-width or ASCII digits 1-5, parses to the same
\* (speaker, text) segments as the same script written in canonical `[話者N]: text`.
C8_DialectInvariance ==
    AppDone => segments = ParseDialogue(CanonicalScript(script))

\* C9: the rewrite rules are idempotent (applied to their own output they change
\* nothing) and leave a script already in canonical form unchanged, also when the
\* spoken text contains a dialect marker such as `(話者1)` or `話者2:`.
C9_RewriteIdempotentAndStable ==
    AppRewritten =>
        /\ NormalizeFrom(content, 1) = content
        /\ IsCanonical(script) => content = arg.value

\* ---- AudioProcessor ------------------------------------------------------
\* The sum of a list of numbers.
RECURSIVE SumSeq(_)
SumSeq(ns) == IF ns = <<>> THEN 0 ELSE Head(ns) + SumSeq(Tail(ns))

\* The frames of the first i segments of a list, their lengths in milliseconds.
FramesOfFirst(segs, i) == SumSeq([j \in 1..i |-> FrameCount(segs[j])])

SumLenMs(segs) == SumSeq([j \in 1..Len(segs) |-> LenMs(segs[j])])

\* The runs of a buffer that are not silence.
Voiced(audio) == SelectSeq(audio, LAMBDA r : r.src # SILENCE)

\* The sources of the voiced runs are the places of the segments that hold frames,
\* in the order of the list.
InInputOrder(audio, segs) ==
    LET v == Voiced(audio)
        P == {i \in 1..Len(segs) : segs[i] # <<>>}
    IN  /\ Len(v) = Cardinality(P)
        /\ \A k \in 1..Len(v) :
              /\ v[k].src \in P
              /\ v[k] = segs[v[k].src][1]
              /\ Cardinality({i \in P : i < v[k].src}) = k - 1

\* The places of the runs of silence in a buffer, in order.
SilentPlaces(audio) ==
    SelectSeq([k \in 1..Len(audio) |-> k], LAMBDA k : audio[k].src = SILENCE)

\* The frames before place k of a buffer that are not silence.
VoicedBefore(audio, k) == FrameCount(Voiced(SubSeq(audio, 1, k - 1)))

\* Silence lies only between adjacent segments: there is one run of silence per
\* adjacent pair (none when the gap holds no frame), each of the gap's frames, and the
\* j-th one starts where the j-th segment ends.
SilenceOnlyBetween(audio, segs, gapFrames) ==
    LET sp == SilentPlaces(audio)
    IN  /\ Len(sp) = IF gapFrames = 0 THEN 0 ELSE Len(segs) - 1
        /\ \A j \in 1..Len(sp) :
              /\ audio[sp[j]].n = gapFrames
              /\ VoicedBefore(audio, sp[j]) = FramesOfFirst(segs, j)

Abs(x) == IF x < 0 THEN -x ELSE x

\* The frames of a silence of silence_ms milliseconds, for silence_ms >= 0.
GapFrames == (FrameRate * silence_ms) \div 1000

\* The length in milliseconds the claim C11 computes.
ClaimedLength(segs, g) == SumLenMs(segs) + (Len(segs) - 1) * g

C12_NegativeGapRejected ==
    (combined.called /\ audio_segments # <<>> /\ silence_ms < 0) =>
        (combined.raised /\ combined.audio = <<>>)

\* ---- TrackBuilder --------------------------------------------------------
\* Where a clip ends, in milliseconds.
ClipEnd(c) == c.start_ms + LenMs(c.audio)

\* d is the maximum of start_ms + len(audio) over the clips held, 0 if there is none.
IsMaxEnd(d, cs) ==
    IF cs = <<>> THEN d = 0
    ELSE /\ \A i \in 1..Len(cs) : ClipEnd(cs[i]) <= d
         /\ \E i \in 1..Len(cs) : ClipEnd(cs[i]) = d

\* A layer of a track is a clip: it starts at the frame of the clip's start_ms and holds
\* the clip's frames, all but the fraction of a millisecond that passes the end of the base.
IsClipLayer(layer, c) ==
    /\ layer.at = PositionFrames(c.start_ms)
    /\ layer.audio = TakeFrames(c.audio, FrameCount(layer.audio))
    /\ 1000 * (FrameCount(c.audio) - FrameCount(layer.audio)) < FrameRate

\* The operations of the calls made so far.
OpsSoFar == [k \in 1..Len(tbLog) |-> tbLog[k].op]

\* C13: after any sequence of add_clip, add_sequential, build, build_with_bgm, save and
\* clear, get_duration_ms() is the maximum of start_ms + len(audio) over the clips held
\* (0 if none), and the buffer build() returns has exactly that length and holds every
\* clip added so far.
C13_DurationIsMaxEnd ==
    tbLog # <<>> =>
        LET e == Last(tbLog)
        IN  /\ e.op = "get_duration_ms" => IsMaxEnd(e.ms, clips)
            /\ e.op \in {"build", "save"} =>
                  /\ ~e.raised
                  /\ IsMaxEnd(TrackLenMs(e.ret), clips)
                  /\ TrackLenMs(e.ret) = GetDurationMs(clips)
                  /\ Len(e.ret.layers) = Len(clips)
                  /\ \A i \in 1..Len(clips) :
                        \E k \in 1..Len(e.ret.layers) :
                            /\ IsClipLayer(e.ret.layers[k], clips[i])

\* A track is built, a clip that ends later is added, and the track is built again.
C13_Witness ==
    /\ OpsSoFar = <<"build", "add_clip", "build">>
    /\ Len(clips) = 1
    /\ TrackLenMs(tbLog[1].ret) = 0
    /\ TrackLenMs(tbLog[3].ret) = 81

\* The step is a call of one of the operations given.
CallOf(ops) == Len(tbLog') = Len(tbLog) + 1 /\ Last(tbLog').op \in ops

\* C14: build and build_with_bgm are non-destructive: they leave the clip list (audio,
\* start_ms, labels and insertion order) unchanged, and two consecutive build calls with
\* no call in between return equal results.
C14_BuildNonDestructive ==
    [][ /\ CallOf({"build", "build_with_bgm"}) => clips' = clips
        /\ (CallOf({"build"}) /\ tbLog # <<>> /\ Last(tbLog).op = "build"
            /\ Last(tbLog').ret.normalized = Last(tbLog).ret.normalized)
              => Last(tbLog').ret = Last(tbLog).ret ]_vars

\* Two clips are built twice in a row.
C14_Witness ==
    /\ OpsSoFar = <<"add_sequential", "build", "build">>
    /\ tbLog[2].ret = tbLog[3].ret
    /\ Len(tbLog[3].ret.layers) = 2
    /\ Len(clips) = 2

\* C15: for every clip list and every BGM length (shorter than, equal to or longer than
\* the voice track, a zero-length BGM and an empty clip list included), build_with_bgm
\* does not raise and returns a buffer as long as the voice track built from the clips.
C15_BgmKeepsDuration ==
    (tbLog # <<>> /\ Last(tbLog).op = "build_with_bgm") =>
        /\ ~Last(tbLog).raised
        /\ IsMaxEnd(TrackLenMs(Last(tbLog).ret), clips)


\* The items of a run in script order, those whose synthesis succeeded, those whose
\* synthesis failed, and the items a piece of audio data holds.
Items(n) == [k \in 1..n |-> k]

SucceededUpTo(n) == SelectSeq(Items(n), LAMBDA k : gateway[k] = "ok")

FailedUpTo(n) == SelectSeq(Items(n), LAMBDA k : gateway[k] # "ok")

ItemsIn(data) == SelectSeq(data, LAMBDA x : x # PAUSE)

TolerantRuns == {"synthesize_dialogue", "main", "generate_audio", "button"}

\* C16: in GeminiTTS.synthesize_dialogue and app.generate_audio, when some but not all
\* segments fail, the segments are attempted one after the other in script order, no
\* failure stops the loop, each failed segment is reported exactly once, and the
\* output of a run that returns holds the successful segments, in script order, and
\* no other.
C16_PartialFailureTolerated ==
    (run \in TolerantRuns /\ SucceededUpTo(num_items) # <<>>) =>
        /\ attempts = Items(item)
        /\ reports = FailedUpTo(item)
        /\ (ppc # "loop" /\ ppc # "parse") => item = num_items
        /\ outcome = "returned" => ItemsIn(emitted.data) = SucceededUpTo(num_items)

\* A run of three segments, the second one failing, has returned the first and the
\* third, a pause after each, and reported the second.
C16_Witness ==
    /\ run = "generate_audio"
    /\ gateway = <<"ok", "fail", "ok">>
    /\ outcome = "returned"
    /\ emitted.data = <<1, PAUSE, 3, PAUSE>>
    /\ reports = <<2>>
    /\ attempts = <<1, 2, 3>>


\* C17: in the VoiceAgent pipelines a synthesis failure for one line or section does
\* not abort the run: every line is still attempted, the run returns, and the output
\* saved holds the lines that succeeded.
C17_AgentToleratesSegmentFailure ==
    (/\ run \in AgentRuns
     /\ encoder = "ok"
     /\ SucceededUpTo(num_items) # <<>>
     /\ outcome # "running") =>
        /\ outcome = "returned"
        /\ attempts = Items(num_items)
        /\ OutputPath \in DOMAIN disk
        /\ ItemsIn(disk[OutputPath]) = SucceededUpTo(num_items)


CleaningRuns == TolerantRuns \cup {"generate_dialogue"}

\* C18: when a run of GeminiTTS.synthesize_dialogue, app.generate_audio or
\* VoiceAgent.generate_dialogue has ended, by a return or by an exception, no
\* per-segment temporary file of the run is left.
C18_TempFilesDeletedOnEveryExit ==
    (run \in CleaningRuns /\ outcome # "running") => TempDirFiles(disk) = {}


ParsingRuns == {"main", "button"} \cup AgentRuns

\* C19: when parsing yields no line, segment or section, the run ends in an error
\* that reaches the caller, no synthesis call is made and no output file is written;
\* for gemini_dialogue.main, the generate button and the three VoiceAgent pipelines.
C19_ParseEmptyAborts ==
    (run \in ParsingRuns /\ num_items = 0 /\ outcome # "running") =>
        /\ outcome \in {"error", "raised"}
        /\ attempts = <<>>
        /\ OutputPath \notin DOMAIN disk


\* The run asks for MP3: app.generate_audio always does, GeminiTTS.synthesize does for
\* an output path that ends in .mp3.
RequestsMp3 ==
    \/ run \in {"generate_audio", "button"}
    \/ run = "synthesize" /\ output_suffix = ".mp3"

\* C20: when the external encoder is absent or fails, a run that asks for MP3 and
\* whose synthesis and combining succeed does not fail: it returns and emits the WAV
\* audio; for app.generate_audio and for GeminiTTS.synthesize with an .mp3 path.
C20_EncoderFailureFallsBackToWav ==
    (/\ RequestsMp3
     /\ encoder # "ok"
     /\ combining = "ok"
     /\ SucceededUpTo(num_items) # <<>>
     /\ outcome # "running") =>
        /\ outcome = "returned"
        /\ emitted.format = ".wav"
        /\ ItemsIn(emitted.data) = SucceededUpTo(num_items)

\* The part of C20 that holds: app.generate_audio emits the WAV.
C20_GenerateAudioFallsBack ==
    (/\ run \in {"generate_audio", "button"}
     /\ encoder # "ok"
     /\ combining = "ok"
     /\ SucceededUpTo(num_items) # <<>>
     /\ outcome # "running") =>
        /\ outcome = "returned"
        /\ emitted.format = ".wav"
        /\ ItemsIn(emitted.data) = SucceededUpTo(num_items)


\* C21: an input document whose extension the reader dispatch does not recognize ends
\* the run in an error and no synthesis call is made; for read_word_file on a path
\* that is not .docx and for VoiceAgent.convert_document on an unrecognized extension.
C21_UnsupportedFormatTerminal ==
    /\ (/\ run = "read_word_file"
        /\ Lower(document.suffix) # <<46, 100, 111, 99, 120>>
        /\ outcome # "running") => (outcome = "raised" /\ attempts = <<>>)
    /\ (/\ run = "convert_document"
        /\ Lower(document.suffix) \notin RecognizedSuffixes
        /\ (outcome # "running" \/ attempts # <<>>)) => (outcome = "raised" /\ attempts = <<>>)

\* The half of C21 that holds: read_word_file raises on every path that is not .docx.
C21_ReadWordFileRejects ==
    (/\ run = "read_word_file"
     /\ Lower(document.suffix) # <<46, 100, 111, 99, 120>>
     /\ outcome # "running") => (outcome = "raised" /\ attempts = <<>>)


\* The place of clip i of a list among the overlays: after the clips that start
\* earlier and after the clips that start with it and precede it in the list.
PlaceOf(cs, i) ==
    1 + Cardinality({j \in 1..Len(cs) :
                        \/ cs[j].start_ms < cs[i].start_ms
                        \/ cs[j].start_ms = cs[i].start_ms /\ j < i})

\* The layers are the clips cs, each one once at its start_ms, in ascending start_ms
\* and, for clips that start together, in the order of the list.
OverlaidInOrder(layers, cs) ==
    /\ Len(layers) = Len(cs)
    /\ \A i \in 1..Len(cs) : IsClipLayer(layers[PlaceOf(cs, i)], cs[i])

\* C22: TrackBuilder.build overlays every clip exactly once, at its start_ms, in
\* ascending start_ms order, clips with equal start_ms in their insertion order.
C22_OverlayOrder ==
    (tbLog # <<>> /\ Last(tbLog).op \in {"build", "save"}) =>
        OverlaidInOrder(Last(tbLog).ret.layers, clips)

\* Two files are placed at 0 and 40 ms and a clip is added at 0 ms after them: the
\* build overlays the two clips at 0 ms first, in the order they were added, then the
\* clip at 40 ms.
C22_Witness ==
    /\ OpsSoFar = <<"add_sequential", "add_clip", "build">>
    /\ Len(clips) = 3
    /\ clips[1].start_ms = 0 /\ clips[2].start_ms = 40 /\ clips[3].start_ms = 0
    /\ clips[3].audio # clips[1].audio /\ clips[3].audio # <<>>
    /\ Last(tbLog).ret.layers[1].audio = clips[1].audio
    /\ Last(tbLog).ret.layers[2].audio = clips[3].audio
    /\ Last(tbLog).ret.layers[3].at = PositionFrames(40)


\* The buffers of a list of files, and the start the claim C23 computes for file i:
\* the start plus, for every file before it, its length and the gap.
Buffers(audio_files) == [j \in 1..Len(audio_files) |-> Load(audio_files[j])]

ClaimedStart(audio_files, gap_ms, start_ms, i) ==
    start_ms + SumSeq([j \in 1..(i - 1) |-> LenMs(Load(audio_files[j])) + gap_ms])

\* The last call was add_sequential(e.audio_files, e.gap_ms, e.start_ms) and the clips
\* it appended are at the claimed starts, in the order of the files.
PlacedSequentially(e) ==
    LET n == Len(e.audio_files)
        before == Len(clips) - n
    IN  /\ before >= 0
        /\ \A i \in 1..n :
              /\ clips[before + i].audio = Load(e.audio_files[i])
              /\ clips[before + i].start_ms =
                    ClaimedStart(e.audio_files, e.gap_ms, e.start_ms, i)

\* In milliseconds no clip starts before the clip before it ends.
NoOverlapMs(cs) ==
    \A i \in 1..(Len(cs) - 1) : ClipEnd(cs[i]) <= cs[i + 1].start_ms

\* add_sequential was the last call, on an empty builder, with start 0 and a gap >= 0.
SequentialFromEmpty ==
    /\ tbLog # <<>>
    /\ Last(tbLog).op = "add_sequential"
    /\ Len(clips) = Len(Last(tbLog).audio_files)
    /\ Last(tbLog).start_ms = 0
    /\ Last(tbLog).gap_ms >= 0

BatchOverAssigned(m) ==
    /\ Len(vmHist'[m]) = Len(vmHist[m]) + 1
    /\ Last(vmHist'[m]).op = "assign_voices_for_dialogue"
    /\ Last(vmHist'[m]).speakers \cap DOMAIN speaker_voices[m] # {}
    /\ Last(vmHist'[m]).speakers \ DOMAIN speaker_voices[m] # {}

\* The assignments the step made on manager m, in the order they were made.
AssignedByStep(m) == SubSeq(autoLog'[m], Len(autoLog[m]) + 1, Len(autoLog'[m]))

\* C24: in assign_voices_for_dialogue the preset index advances only over the
\* unassigned speakers: the j-th unassigned speaker in sorted order (from 0) receives
\* presets[j mod len(presets)], however many assigned speakers precede it.
C24_IndexOverUnassignedOnly ==
    [][ \A m \in Managers :
          BatchOverAssigned(m) =>
              LET presets == AvailableVoices(default_language[m])
                  new == AssignedByStep(m)
              IN  \A j \in 1..Len(new) :
                      new[j].voice = presets[((j - 1) % Len(presets)) + 1] ]_vars


\* The speakers of the script, as a set, and the places whose loop has ended.
SpeakerSet == Range(dialogue_speakers)

VoicesDone(place) == DOMAIN default_voices[place] = SpeakerSet

\* C25: in gemini_dialogue.main and app.generate_audio the speaker of sorted rank r
\* receives female_pool[(r // 2) mod 4] and the 'expressive young woman' style when r
\* is even, male_pool[(r // 2) mod 4] and the 'calm knowledgeable expert' style when r
\* is odd; so a script of at most 8 speakers gives every speaker a different voice.
C25_ParitySplit ==
    \A place \in {"main", "generate_audio"} :
        /\ DOMAIN default_styles[place] = DOMAIN default_voices[place]
        /\ \A s \in DOMAIN default_voices[place] :
              LET r == Rank(s, SpeakerSet)
              IN  IF r % 2 = 0
                  THEN /\ default_voices[place][s] = FemaleVoices(place)[((r \div 2) % 4) + 1]
                       /\ default_styles[place][s] = FemaleStyle
                  ELSE /\ default_voices[place][s] = MaleVoices(place)[((r \div 2) % 4) + 1]
                       /\ default_styles[place][s] = MaleStyle
        /\ (VoicesDone(place) /\ Cardinality(SpeakerSet) <= 8) =>
              \A s, t \in SpeakerSet : s # t => default_voices[place][s] # default_voices[place][t]

\* Eight speakers have their voices in main, eight different names; "話者10" sorts
\* before "話者2" and has the female voice of rank 2.
C25_Witness ==
    /\ Cardinality(SpeakerSet) = 8
    /\ VoicesDone("main")
    /\ Cardinality({default_voices["main"][s] : s \in SpeakerSet}) = 8
    /\ default_voices["main"][<<35441, 32773, 49, 48>>] = "Kore"


\* The last call built a track: build or save, or build_with_bgm when it did not raise.
LastBuilt == tbLog # <<>> /\ Last(tbLog).op \in {"build", "save"}

LastBuiltWithBgm == tbLog # <<>> /\ Last(tbLog).op = "build_with_bgm" /\ ~Last(tbLog).raised

\* In milliseconds every clip ends within the base it is overlaid on.
FitsInMs(t, cs) == \A i \in 1..Len(cs) : ClipEnd(cs[i]) <= LenMs(t.base)

\* The music the voice track is overlaid on is as long as the voice track.
BgmAsLongAsVoice(t) ==
    /\ Len(t.layers) = 1
    /\ t.layers[1].at = 0
    /\ LenMs(t.base) = TrackLenMs(t.layers[1].audio)
    /\ FrameCount(t.base) = FrameCount(t.layers[1].audio.base)

LineOf(at) == 1 + Cardinality({j \in 1..(at - 1) : content[j] = NL})

\* C27: gemini_dialogue.parse_dialogue returns its segments in document order and
\* reports no source line twice: each returned segment comes from an earlier line of
\* the content than the segment after it.
C27_DocumentOrder ==
    (fn = "gemini_dialogue.parse_dialogue" /\ pc = "done") =>
        \A i \in 1..(Len(segments) - 1) :
            LineOf(segments[i].at) < LineOf(segments[i + 1].at)


\* The file that _combine_audio_files and combine_wav_files write.
CombinedPath == IF run \in {"synthesize_dialogue", "main"} THEN OutputPath ELSE CombinedWav

\* C28: the combined output of GeminiTTS._combine_audio_files and of
\* app.combine_wav_files holds the 300 ms silence only between adjacent segments, not
\* before the first and not after the last: for n >= 1 successful segments it is what
\* insert_silence_between gives, n - 1 pauses.
C28_SilenceOnlyBetween ==
    (run \in TolerantRuns /\ ppc \in {"convert", "cleanup"} /\ temp_files # <<>>) =>
        /\ disk[CombinedPath] = JoinBetween(disk, temp_files)
        /\ Len(SelectSeq(disk[CombinedPath], LAMBDA x : x = PAUSE)) = Len(temp_files) - 1


\* C29: the default voices GeminiTTS.synthesize_dialogue computes when speaker_voices
\* is None are, for every speaker set, the voices gemini_dialogue.main and
\* app.generate_audio compute for the same set: the same name at every sort rank.
C29_SameDefaultsEverywhere ==
    \A place \in {"main", "generate_audio"} :
        \A s \in DOMAIN default_voices["synthesize_dialogue"] \cap DOMAIN default_voices[place] :
            default_voices["synthesize_dialogue"][s] = default_voices[place][s]


\* Every segment of the run has been attempted and the synthesis of each one failed.
AllSegmentsFailed == num_items > 0 /\ item = num_items /\ SucceededUpTo(num_items) = <<>>

\* C30: when every segment's synthesis fails, the Gemini dialogue pipeline and the
\* web-app pipeline skip assembly and end without an unhandled exception:
\* synthesize_dialogue returns without combining, and generate_audio reaches its
\* return without reading a combined file that was never written.
C30_AllFailedEndsQuietly ==
    (run \in TolerantRuns /\ AllSegmentsFailed) =>
        /\ {OutputPath, CombinedWav, CombinedMp3} \cap DOMAIN disk = {}
        /\ outcome # "raised"

\* The half of C30 that holds: synthesize_dialogue, with no segment synthesized,
\* returns with nothing combined.
C30_SynthesizeDialogueSkips ==
    (run \in {"synthesize_dialogue", "main"} /\ AllSegmentsFailed /\ ppc = "done") =>
        /\ outcome = "returned"
        /\ OutputPath \notin DOMAIN disk
        /\ emitted = Nothing

====
